---------------------------- MODULE Spec2Model ----------------------------
(***************************************************************************)
(* A model of the query-to-execution pipeline of release_agent:            *)
(*   CodeFormatter      (code_formatter.py)   the repair / validation funnel*)
(*   SecureCodeExecutor (secure_executor.py)  the sandboxed execution       *)
(*   KGQueryAgent       (kg_query_agent.py)   process_query, the orchestrator*)
(*   ResultFormatter    (result_formatter.py) the result projection         *)
(*                                                                         *)
(* Source text is modelled as a sequence of lines.  A line is a record     *)
(* [ind, txt]: ind is its indentation in units of four spaces and txt its  *)
(* stripped text, taken from a small vocabulary of real Python lines (and  *)
(* of lines that are not Python).  The empty sequence is the empty string. *)
(***************************************************************************)
EXTENDS Naturals, Sequences, FiniteSets, TLC

(***************************************************************************)
(* Bounds of the model.                                                    *)
(***************************************************************************)
MaxLines == 2
MaxIndent == 2
MaxGenLines == 1
MaxQueryLen == 1
MaxOut == 2

(***************************************************************************)
(* The vocabulary of line texts.                                           *)
(***************************************************************************)
TRY == "try:"
EXCEPT_CLAUSE == "except Exception as e:"
IF_LINE == "if results:"
IMPORT_JSON == "import json"
IMPORT_SOCKET == "import socket"
STMT == "x = 1"
RESULTS_ASSIGN == "results = {}"
RESULTS == "results"
PRINT_RESULTS == "print(json.dumps(results))"
PROSE == "Here is the code."
\* The markdown fence (three backquotes) is written ~~~ here.
FENCE_PY == "~~~python"
FENCE == "~~~"
MIXQ == "s = 'a\"x\"y'"
MIXQ_DOUBLED == "s = \"a\"x\"y\""
MIXQ_ESCAPED == "s = \\'a\"x\"y\\'"
PASS == "pass"
SET_ERROR == "results['error'] = str(e)"
BLANK == ""

Line(i, t) == [ind |-> i, txt |-> t]
BlankLine == Line(0, BLANK)

\* Texts a generator may produce (the lines the repair stages insert, PASS
\* and SET_ERROR, and the rewritten quote lines arise only as outputs).
InputTexts ==
    {TRY, EXCEPT_CLAUSE, IF_LINE, IMPORT_JSON, IMPORT_SOCKET, STMT,
     RESULTS_ASSIGN, RESULTS, PRINT_RESULTS, PROSE, FENCE_PY, FENCE, MIXQ}

\* str.startswith / `in` / str.endswith on the vocabulary.
StartsWithTry(t) == t = TRY
StartsWithImport(t) == t \in {IMPORT_JSON, IMPORT_SOCKET}
StartsWithExceptOrFinally(t) == t = EXCEPT_CLAUSE
HasResultsAssign(t) == t = RESULTS_ASSIGN
EndsWithColon(t) == t \in {TRY, EXCEPT_CLAUSE, IF_LINE}
HasBothQuotes(t) == t \in {MIXQ, MIXQ_ESCAPED}
HasExceptWord(t) == t = EXCEPT_CLAUSE

\* Sequences over S of length at most n.
SeqsUpTo(S, n) == UNION {[1..k -> S] : k \in 0..n}

Last(s) == s[Len(s)]
Front(s) == SubSeq(s, 1, Len(s) - 1)

\* str.split("\n") and "\n".join: the empty string splits into one empty
\* line, and a single empty line joins into the empty string.
Split(code) == IF code = <<>> THEN <<BlankLine>> ELSE code
Join(lines) == IF lines = <<BlankLine>> THEN <<>> ELSE lines

(***************************************************************************)
(* ast.parse on the vocabulary: the block structure CPython checks.  The   *)
(* result is the SyntaxError's (msg, text), or MSG_OK when the code parses.*)
(***************************************************************************)
MSG_OK == "ok"
MSG_UNEXPECTED_INDENT == "unexpected indent"
MSG_INVALID == "invalid syntax"
MSG_CONTINUATION == "unexpected character after line continuation character"
MSG_BLOCK_AFTER_TRY == "expected an indented block after 'try' statement"
MSG_BLOCK_AFTER_IF == "expected an indented block after 'if' statement"
MSG_BLOCK_AFTER_EXCEPT == "expected an indented block after 'except' statement"
MSG_EXPECTED_EXCEPT == "expected 'except' or 'finally' block"
MSG_UNINDENT == "unindent does not match any outer indentation level"

SyntaxErr(m, t) == [msg |-> m, txt |-> t]
NoSyntaxErr == SyntaxErr(MSG_OK, "")

BlockAfter(t) ==
    CASE t = TRY -> MSG_BLOCK_AFTER_TRY
      [] t = IF_LINE -> MSG_BLOCK_AFTER_IF
      [] OTHER -> MSG_BLOCK_AFTER_EXCEPT

\* What the tokenizer and the grammar say of one line's own text.
LexError(t) ==
    CASE t \in {PROSE, FENCE_PY, FENCE, MIXQ_DOUBLED} -> MSG_INVALID
      [] t = MIXQ_ESCAPED -> MSG_CONTINUATION
      [] OTHER -> MSG_OK

\* The suites open at a line: levels is the stack of [ind, opener], opener
\* the header that opened the suite ("" at top level); expect is the header
\* whose suite must start on the next line.
ParseStart ==
    [levels |-> <<[ind |-> 0, opener |-> ""]>>, expect |-> "", err |-> NoSyntaxErr]

LevelInds(levels) == {levels[i].ind : i \in DOMAIN levels}

\* The suites a dedent to ind closes, innermost first.
RECURSIVE ClosedBy(_, _)
ClosedBy(levels, ind) ==
    IF Last(levels).ind <= ind THEN <<>>
    ELSE <<Last(levels).opener>> \o ClosedBy(Front(levels), ind)

RECURSIVE PopTo(_, _)
PopTo(levels, ind) ==
    IF Last(levels).ind <= ind THEN levels ELSE PopTo(Front(levels), ind)

\* After the indentation is settled: closed is the opener of the suite that
\* ended right before this line at this line's level ("" when none did).
ParseText(st, ln, levels, closed) ==
    LET fail(m) == [st EXCEPT !.err = SyntaxErr(m, ln.txt)]
    IN  CASE closed = TRY /\ ln.txt # EXCEPT_CLAUSE -> fail(MSG_EXPECTED_EXCEPT)
          [] ln.txt = EXCEPT_CLAUSE /\ closed \notin {TRY, EXCEPT_CLAUSE}
               -> fail(MSG_INVALID)
          [] LexError(ln.txt) # MSG_OK -> fail(LexError(ln.txt))
          [] OTHER ->
               [levels |-> levels,
                expect |-> IF EndsWithColon(ln.txt) THEN ln.txt ELSE "",
                err |-> NoSyntaxErr]

ParseLine(st, ln) ==
    LET top == Last(st.levels).ind
        fail(m) == [st EXCEPT !.err = SyntaxErr(m, ln.txt)]
    IN  IF st.err # NoSyntaxErr \/ ln.txt = BLANK THEN st
        ELSE IF ln.ind < top /\ ln.ind \notin LevelInds(st.levels) THEN fail(MSG_UNINDENT)
        ELSE IF st.expect # "" THEN
            IF ln.ind > top
            THEN ParseText(st, ln,
                     Append(st.levels, [ind |-> ln.ind, opener |-> st.expect]), "")
            ELSE fail(BlockAfter(st.expect))
        ELSE IF ln.ind > top THEN fail(MSG_UNEXPECTED_INDENT)
        ELSE IF ln.ind = top THEN ParseText(st, ln, st.levels, "")
        ELSE LET closed == ClosedBy(st.levels, ln.ind)
             IN  IF \E i \in 1..(Len(closed) - 1) : closed[i] = TRY
                 THEN fail(MSG_EXPECTED_EXCEPT)
                 ELSE ParseText(st, ln, PopTo(st.levels, ln.ind), closed[Len(closed)])

RECURSIVE ParseLines(_, _)
ParseLines(st, lines) ==
    IF lines = <<>> THEN st ELSE ParseLines(ParseLine(st, Head(lines)), Tail(lines))

\* The text CPython reports at the end of input: the last line, or the one
\* before it when the last line is blank.
LastCodeText(lines) ==
    IF lines = <<>> THEN ""
    ELSE IF Last(lines).txt # BLANK \/ Len(lines) = 1 THEN Last(lines).txt
    ELSE lines[Len(lines) - 1].txt

ParseError(code) ==
    LET st == ParseLines(ParseStart, code)
    IN  IF st.err # NoSyntaxErr THEN st.err
        ELSE IF st.expect # "" THEN SyntaxErr(BlockAfter(st.expect), LastCodeText(code))
        ELSE IF \E i \in DOMAIN st.levels : st.levels[i].opener = TRY
             THEN SyntaxErr(MSG_EXPECTED_EXCEPT, LastCodeText(code))
        ELSE NoSyntaxErr

Parses(code) == ParseError(code) = NoSyntaxErr

(***************************************************************************)
(* CodeFormatter: the repair / validation funnel.                          *)
(***************************************************************************)

\* _preprocess_code's start test: the first line that looks like code.
StartsCode(t) ==
    t \in {TRY, IF_LINE, IMPORT_JSON, IMPORT_SOCKET, RESULTS_ASSIGN,
           PRINT_RESULTS, SET_ERROR}

\* _preprocess_code's end test: not empty, no prose prefix, no sentence end.
EndsCode(t) == t \notin {BLANK, PROSE}

\* re.sub(r"^~~~python\s*\n", "", code, flags=re.MULTILINE): an opening fence
\* at column 0 that a newline follows goes, with the blank lines after it
\* that a newline follows too.
RECURSIVE StripOpenFences(_, _)
StripOpenFences(lines, eating) ==
    IF lines = <<>> THEN <<>>
    ELSE IF Len(lines) = 1 THEN lines
    ELSE IF Head(lines) = Line(0, FENCE_PY) \/ (eating /\ Head(lines) = BlankLine)
         THEN StripOpenFences(Tail(lines), TRUE)
    ELSE <<Head(lines)>> \o StripOpenFences(Tail(lines), FALSE)

\* re.sub(r"\n~~~\s*$", "", code, flags=re.MULTILINE): a closing fence at
\* column 0 that is not the first line goes, with the blank lines after it.
RECURSIVE StripCloseFences(_, _, _)
StripCloseFences(lines, first, eating) ==
    IF lines = <<>> THEN <<>>
    ELSE IF ~first /\ (Head(lines) = Line(0, FENCE) \/ (eating /\ Head(lines) = BlankLine))
         THEN StripCloseFences(Tail(lines), FALSE, TRUE)
    ELSE <<Head(lines)>> \o StripCloseFences(Tail(lines), FALSE, FALSE)

\* for i, line in enumerate(lines): the first line passing the start test
\* (0 when there is none).
FirstCodeIndex(lines) ==
    IF \E i \in DOMAIN lines : StartsCode(lines[i].txt)
    THEN CHOOSE i \in DOMAIN lines :
             /\ StartsCode(lines[i].txt)
             /\ \A j \in 1..(i - 1) : ~StartsCode(lines[j].txt)
    ELSE 0

\* for i in range(len(lines) - 1, -1, -1): the last line passing the end
\* test (0 when there is none).
LastCodeIndex(lines) ==
    IF \E i \in DOMAIN lines : EndsCode(lines[i].txt)
    THEN CHOOSE i \in DOMAIN lines :
             /\ EndsCode(lines[i].txt)
             /\ \A j \in (i + 1)..Len(lines) : ~EndsCode(lines[j].txt)
    ELSE 0

_preprocess_code(code) ==
    LET unfenced == StripCloseFences(StripOpenFences(Split(code), FALSE), TRUE, FALSE)
        lines == Split(Join(unfenced))
        first == FirstCodeIndex(lines)
        last == LastCodeIndex(lines)
        start_idx == IF first = 0 THEN 1 ELSE first
        end_idx == IF last = 0 THEN Len(lines) ELSE last
    IN  Join(SubSeq(lines, start_idx, end_idx))

\* re.sub(r"(?<!\\)'", '"', line) on a line holding both quote characters.
StandardizeQuotes(t) == IF t = MIXQ THEN MIXQ_DOUBLED ELSE t

\* One turn of _fix_common_llm_issues's loop; st = [in_try_block, try_indent, fixed_lines].
FixCommonLine(st, ln) ==
    IF StartsWithTry(ln.txt)
    THEN [in_try_block |-> TRUE, try_indent |-> ln.ind,
          fixed_lines |-> Append(st.fixed_lines, ln)]
    ELSE LET closes == st.in_try_block /\ StartsWithImport(ln.txt)
                           /\ ln.ind <= st.try_indent
             closed == IF closes
                       THEN st.fixed_lines
                                \o <<Line(st.try_indent, EXCEPT_CLAUSE),
                                     Line(st.try_indent + 1, PASS)>>
                       ELSE st.fixed_lines
             in_try == st.in_try_block /\ ~closes
             fixed == IF HasResultsAssign(ln.txt) THEN ln
                      ELSE IF HasBothQuotes(ln.txt)
                           THEN Line(ln.ind, StandardizeQuotes(ln.txt))
                      ELSE ln
         IN  [in_try_block |-> in_try, try_indent |-> st.try_indent,
              fixed_lines |-> Append(closed, fixed)]

RECURSIVE FixCommonLoop(_, _)
FixCommonLoop(st, lines) ==
    IF lines = <<>> THEN st
    ELSE FixCommonLoop(FixCommonLine(st, Head(lines)), Tail(lines))

_fix_common_llm_issues(code) ==
    LET fixed_lines ==
            FixCommonLoop([in_try_block |-> FALSE, try_indent |-> 0,
                           fixed_lines |-> <<>>], Split(code)).fixed_lines
        last_line == Last(fixed_lines).txt
    IN  Join(IF last_line = RESULTS
             THEN Append(Front(fixed_lines), Line(0, PRINT_RESULTS))
             ELSE IF last_line # PRINT_RESULTS
                  THEN Append(fixed_lines, Line(0, PRINT_RESULTS))
             ELSE fixed_lines)

\* _validate_syntax: (is_valid, errors); an error message is kept as the
\* SyntaxError's (msg, text) it is formatted from.
_validate_syntax(code) ==
    LET e == ParseError(code)
    IN  IF e = NoSyntaxErr THEN [is_valid |-> TRUE, errors |-> <<>>]
        ELSE [is_valid |-> FALSE, errors |-> <<e>>]

\* The substring tests _advanced_syntax_fix makes on an error message
\* "Syntax error at line N: {msg} in '{text}'".
HasExpectedAndExcept(e) ==
    /\ e.msg \in {MSG_EXPECTED_EXCEPT, MSG_BLOCK_AFTER_TRY, MSG_BLOCK_AFTER_IF,
                  MSG_BLOCK_AFTER_EXCEPT, MSG_UNEXPECTED_INDENT, MSG_CONTINUATION}
    /\ e.msg \in {MSG_EXPECTED_EXCEPT, MSG_BLOCK_AFTER_EXCEPT} \/ HasExceptWord(e.txt)
HasIndentationWord(e) == e.msg = MSG_UNINDENT
HasQuoteWord(e) == FALSE

\* One turn of _fix_incomplete_try_blocks's loop; try_blocks holds the
\* indentation of every try still open, innermost last.
FixTryLine(st, ln) ==
    IF StartsWithTry(ln.txt)
    THEN [try_blocks |-> Append(st.try_blocks, ln.ind),
          fixed_lines |-> Append(st.fixed_lines, ln)]
    ELSE IF StartsWithExceptOrFinally(ln.txt)
    THEN [try_blocks |-> IF st.try_blocks # <<>> THEN Front(st.try_blocks)
                         ELSE st.try_blocks,
          fixed_lines |-> Append(st.fixed_lines, ln)]
    ELSE IF st.try_blocks # <<>> /\ ln.ind <= Last(st.try_blocks)
    THEN LET try_indent == Last(st.try_blocks)
         IN  [try_blocks |-> Front(st.try_blocks),
              fixed_lines |-> st.fixed_lines
                                  \o <<Line(try_indent, EXCEPT_CLAUSE),
                                       Line(try_indent + 1, SET_ERROR), ln>>]
    ELSE [try_blocks |-> st.try_blocks, fixed_lines |-> Append(st.fixed_lines, ln)]

RECURSIVE FixTryLoop(_, _)
FixTryLoop(st, lines) ==
    IF lines = <<>> THEN st ELSE FixTryLoop(FixTryLine(st, Head(lines)), Tail(lines))

\* The clauses appended for the try blocks left open, outermost first.
RECURSIVE CloseOpenTries(_)
CloseOpenTries(try_blocks) ==
    IF try_blocks = <<>> THEN <<>>
    ELSE <<Line(Head(try_blocks), EXCEPT_CLAUSE), Line(Head(try_blocks) + 1, SET_ERROR)>>
             \o CloseOpenTries(Tail(try_blocks))

_fix_incomplete_try_blocks(lines) ==
    LET st == FixTryLoop([try_blocks |-> <<>>, fixed_lines |-> <<>>], lines)
    IN  st.fixed_lines \o CloseOpenTries(st.try_blocks)

\* One turn of _fix_indentation_issues's loop.
FixIndentLine(st, ln) ==
    IF ln.txt = BLANK
    THEN [st EXCEPT !.fixed_lines = Append(@, BlankLine)]
    ELSE IF EndsWithColon(ln.txt)
    THEN [expected_indent |-> st.expected_indent + 1,
          fixed_lines |-> Append(st.fixed_lines, Line(st.expected_indent, ln.txt))]
    ELSE IF StartsWithExceptOrFinally(ln.txt)
    THEN LET back == IF st.expected_indent = 0 THEN 0 ELSE st.expected_indent - 1
         IN  [expected_indent |-> back + 1,
              fixed_lines |-> Append(st.fixed_lines, Line(back, ln.txt))]
    ELSE IF StartsWithImport(ln.txt)
    THEN [st EXCEPT !.fixed_lines = Append(@, Line(0, ln.txt))]
    ELSE [st EXCEPT !.fixed_lines = Append(@, Line(st.expected_indent, ln.txt))]

RECURSIVE FixIndentLoop(_, _)
FixIndentLoop(st, lines) ==
    IF lines = <<>> THEN st
    ELSE FixIndentLoop(FixIndentLine(st, Head(lines)), Tail(lines))

_fix_indentation_issues(lines) ==
    FixIndentLoop([expected_indent |-> 0, fixed_lines |-> <<>>], lines).fixed_lines

\* _fix_quote_issues: on a line holding both quote characters, as many of
\* one as of the other, every single quote gets a backslash.
_fix_quote_issues(lines) ==
    [i \in DOMAIN lines |->
        IF lines[i].txt = MIXQ THEN Line(lines[i].ind, MIXQ_ESCAPED) ELSE lines[i]]

_advanced_syntax_fix(code, errors) ==
    LET lines0 == Split(code)
        lines1 == IF \E i \in DOMAIN errors : HasExpectedAndExcept(errors[i])
                  THEN _fix_incomplete_try_blocks(lines0) ELSE lines0
        lines2 == IF \E i \in DOMAIN errors : HasIndentationWord(errors[i])
                  THEN _fix_indentation_issues(lines1) ELSE lines1
        lines3 == IF \E i \in DOMAIN errors : HasQuoteWord(errors[i])
                  THEN _fix_quote_issues(lines2) ELSE lines2
    IN  Join(lines3)

\* What running black can come to: the tool is missing or fails (None is
\* returned), it runs past its own timeout (None again), or it reformats.
BLACK_MISSING == "missing"
BLACK_FAILED == "failed"
BLACK_TIMEOUT == "timeout"
BLACK_OK == "ok"
BlackOutcomes == {BLACK_MISSING, BLACK_FAILED, BLACK_TIMEOUT, BLACK_OK}
\* black's output on code that parses: every suite indented one level below
\* its header, no blank line at either end, and a final newline.
RECURSIVE PopInds(_, _)
PopInds(inds, ind) ==
    IF Len(inds) > 1 /\ Last(inds) > ind THEN PopInds(Front(inds), ind) ELSE inds

RECURSIVE BlackIndent(_, _, _)
BlackIndent(lines, inds, opened) ==
    IF lines = <<>> THEN <<>>
    ELSE LET ln == Head(lines)
             kept == IF opened THEN Append(inds, ln.ind) ELSE PopInds(inds, ln.ind)
         IN  IF ln.txt = BLANK
             THEN <<ln>> \o BlackIndent(Tail(lines), inds, opened)
             ELSE <<Line(Len(kept) - 1, ln.txt)>>
                      \o BlackIndent(Tail(lines), kept, EndsWithColon(ln.txt))

RECURSIVE DropLeadingBlanks(_)
DropLeadingBlanks(lines) ==
    IF lines # <<>> /\ Head(lines) = BlankLine THEN DropLeadingBlanks(Tail(lines))
    ELSE lines

RECURSIVE DropTrailingBlanks(_)
DropTrailingBlanks(lines) ==
    IF lines # <<>> /\ Last(lines) = BlankLine THEN DropTrailingBlanks(Front(lines))
    ELSE lines

BlackFormat(code) ==
    LET body == DropTrailingBlanks(DropLeadingBlanks(BlackIndent(code, <<0>>, FALSE)))
    IN  IF body = <<>> THEN <<>> ELSE Append(body, BlankLine)

\* _format_with_black: the formatted code (some), or None; every failure of
\* the tool is caught inside, so no exception leaves it (exc).
_format_with_black(code, black) ==
    IF black = BLACK_OK THEN [some |-> TRUE, value |-> BlackFormat(code), exc |-> FALSE]
    ELSE [some |-> FALSE, value |-> <<>>, exc |-> FALSE]

\* format_and_validate with the flag taken before _fix_common_llm_issues.
format_and_validate_with_early_flag(code, black) ==
    LET cleaned_code == _preprocess_code(code)
        fixed_code == _fix_common_llm_issues(cleaned_code)
    IN  [code |-> fixed_code, is_valid |-> _validate_syntax(cleaned_code).is_valid,
         errors |-> <<>>, exc |-> FALSE]

\* Step 5: the final validation of the code that is returned.
ValidateFinal(fixed2, errors1) ==
    [code |-> fixed2, is_valid |-> _validate_syntax(fixed2).is_valid,
     errors |-> errors1 \o _validate_syntax(fixed2).errors, exc |-> FALSE]

\* Step 4: black's output replaces the code when the code is valid and
\* black returned something.
FormatValidated(fixed1, is_valid, errors1, formatted) ==
    ValidateFinal(IF is_valid /\ formatted.some /\ formatted.value # <<>>
                  THEN formatted.value ELSE fixed1,
                  errors1)

\* Step 3's second half without "errors.extend(syntax_errors)": the errors
\* of the first validation are forgotten.
Revalidate_forgetting_first_errors(fixed1, v0, v1, black) ==
    FormatValidated(fixed1, v1.is_valid, v1.errors,
                    _format_with_black(fixed1, black))

\* Step 3, second half: the code after _advanced_syntax_fix is validated
\* again and its errors join the list.
Revalidate(fixed1, v0, v1, black) ==
    FormatValidated(fixed1, v1.is_valid, v0.errors \o v1.errors,
                    _format_with_black(fixed1, black))

\* Step 3: validation, and _advanced_syntax_fix when it fails.
ValidateAndFix(fixed0, v0, black) ==
    IF v0.is_valid
    THEN FormatValidated(fixed0, TRUE, <<>>, _format_with_black(fixed0, black))
    ELSE Revalidate(_advanced_syntax_fix(fixed0, v0.errors), v0,
                    _validate_syntax(_advanced_syntax_fix(fixed0, v0.errors)),
                    black)

\* Step 3, the first validation of the code after Step 2.
FixedCommon(fixed0, black) == ValidateAndFix(fixed0, _validate_syntax(fixed0), black)

\* format_and_validate(code) -> (formatted_code, is_valid, error_messages),
\* with black the outcome of the one run of the tool it may make.  exc says
\* whether an exception left the call.
format_and_validate(code, black) ==
    FixedCommon(_fix_common_llm_issues(_preprocess_code(code)), black)

(***************************************************************************)
(* generate_fallback_code.  A query is a sequence of characters over       *)
(* QueryChars; the fallback artifact embeds it twice in a fixed template:  *)
(* in a comment line and between double quotes in the metadata.            *)
(***************************************************************************)
CH_LETTER == "a"
CH_DQUOTE == "\""
CH_NEWLINE == "\n"
QueryChars == {CH_LETTER, CH_DQUOTE, CH_NEWLINE}
Queries == SeqsUpTo(QueryChars, MaxQueryLen)

ORIGIN_FORMATTED == "formatted"
ORIGIN_FALLBACK == "fallback"
FALLBACK_MODE == "fallback_mode"

\* A code artifact: formatted lines, or the fallback template filled in.
FormattedArtifact(lines) ==
    [origin |-> ORIGIN_FORMATTED, lines |-> lines, query |-> <<>>,
     target_files |-> <<>>, status |-> ""]

generate_fallback_code(q, files) ==
    [origin |-> ORIGIN_FALLBACK, lines |-> <<>>, query |-> q,
     target_files |-> files, status |-> FALLBACK_MODE]

\* The tokenizer on the text "{query}" of the metadata entry: it must be
\* string literals and nothing else.  mode is "out" (between tokens), "str"
\* (inside "...") or "triple" (inside a triple-quoted string).
RECURSIVE LexStrings(_, _)
LexStrings(text, mode) ==
    LET n == Len(text)
        triple == n >= 3 /\ text[1] = CH_DQUOTE /\ text[2] = CH_DQUOTE
                         /\ text[3] = CH_DQUOTE
    IN  IF n = 0 THEN mode = "out"
        ELSE IF mode = "out" THEN
            IF triple THEN LexStrings(SubSeq(text, 4, n), "triple")
            ELSE IF text[1] = CH_DQUOTE THEN LexStrings(Tail(text), "str")
            ELSE IF text[1] = CH_NEWLINE THEN LexStrings(Tail(text), "out")
            ELSE FALSE
        ELSE IF mode = "str" THEN
            IF text[1] = CH_DQUOTE THEN LexStrings(Tail(text), "out")
            ELSE IF text[1] = CH_NEWLINE THEN FALSE
            ELSE LexStrings(Tail(text), "str")
        ELSE IF triple THEN LexStrings(SubSeq(text, 4, n), "out")
             ELSE LexStrings(Tail(text), "triple")

\* The tokenizer on what follows the first line break of the query in the
\* comment line: statements at column 0, each a name or string literals.
\* mode is "bol" (line start), "name", "strs" (after a string literal),
\* "str" or "triple".
RECURSIVE LexStatements(_, _)
LexStatements(text, mode) ==
    LET n == Len(text)
        triple == n >= 3 /\ text[1] = CH_DQUOTE /\ text[2] = CH_DQUOTE
                         /\ text[3] = CH_DQUOTE
    IN  IF n = 0 THEN mode \in {"bol", "name", "strs"}
        ELSE IF mode \in {"bol", "strs"} THEN
            IF triple THEN LexStatements(SubSeq(text, 4, n), "triple")
            ELSE IF text[1] = CH_DQUOTE THEN LexStatements(Tail(text), "str")
            ELSE IF text[1] = CH_NEWLINE THEN LexStatements(Tail(text), "bol")
            ELSE mode = "bol" /\ LexStatements(Tail(text), "name")
        ELSE IF mode = "name" THEN
            IF text[1] = CH_DQUOTE THEN FALSE
            ELSE IF text[1] = CH_NEWLINE THEN LexStatements(Tail(text), "bol")
            ELSE LexStatements(Tail(text), "name")
        ELSE IF mode = "str" THEN
            IF text[1] = CH_DQUOTE THEN LexStatements(Tail(text), "strs")
            ELSE IF text[1] = CH_NEWLINE THEN FALSE
            ELSE LexStatements(Tail(text), "str")
        ELSE IF triple THEN LexStatements(SubSeq(text, 4, n), "strs")
             ELSE LexStatements(Tail(text), "triple")

\* The query after its first line break (empty when it has none).
RECURSIVE AfterFirstNewline(_)
AfterFirstNewline(q) ==
    IF q = <<>> THEN <<>>
    ELSE IF Head(q) = CH_NEWLINE THEN Tail(q)
    ELSE AfterFirstNewline(Tail(q))

\* ast.parse on the fallback artifact: a line break in the query ends the
\* comment line and leaves the rest of the query as statements of their own.
FallbackParses(q) ==
    /\ LexStatements(AfterFirstNewline(q), "bol")
    /\ LexStrings(<<CH_DQUOTE>> \o q \o <<CH_DQUOTE>>, "out")

ArtifactParses(a) ==
    IF a.origin = ORIGIN_FALLBACK THEN FallbackParses(a.query) ELSE Parses(a.lines)

(***************************************************************************)
(* SecureCodeExecutor: results, and the scan of the child's stdout.  A     *)
(* stdout is a sequence of line kinds.                                     *)
(***************************************************************************)
OUT_OBJECT == "json object"
OUT_VALUE == "json value that is no object"
OUT_TEXT == "text that is no json"
OUT_DEEP == "json nested beyond the recursion limit"
OUT_BLANK == "blank"
OutKinds == {OUT_OBJECT, OUT_VALUE, OUT_TEXT, OUT_DEEP, OUT_BLANK}
Stdouts == SeqsUpTo(OutKinds, MaxOut)

PAYLOAD_NONE == "none"
PAYLOAD_LINE == "line"
PAYLOAD_RAW == "raw_output"
PAYLOAD_RAISED == "raised"
Payload(k, i) == [kind |-> k, line |-> i]
NoPayload == Payload(PAYLOAD_NONE, 0)

\* for line in reversed(output_lines): the first line json.loads accepts.
RECURSIVE ScanOutput(_, _)
ScanOutput(out, i) ==
    IF i = 0 THEN Payload(PAYLOAD_RAW, 0)
    ELSE CASE out[i] \in {OUT_BLANK, OUT_TEXT} -> ScanOutput(out, i - 1)
           [] out[i] = OUT_DEEP -> Payload(PAYLOAD_RAISED, i)
           [] OTHER -> Payload(PAYLOAD_LINE, i)

ERR_NONE == "none"
ERR_TIMEOUT == "Code execution timed out after N seconds"
ERR_RETURN_CODE == "failed with return code"
ERR_PARSE == "Failed to parse results"
ERR_DOCKER == "Docker execution error"
ERR_EXECUTION == "Execution failed"

DOCKER == "docker"
SUBPROCESS == "subprocess"
Strategies == {DOCKER, SUBPROCESS}

ExecutionResult(ok, err, pl, out, std, tm) ==
    [success |-> ok, error |-> err, payload |-> pl, stdout |-> out,
     has_std |-> std, has_time |-> tm]

\* The branch on process.returncode, in either backend.
ResultOfExit(ex) ==
    IF ex.rc = 0 THEN
        LET pl == ScanOutput(ex.stdout, Len(ex.stdout))
        IN  IF pl.kind = PAYLOAD_RAISED
            THEN ExecutionResult(FALSE, ERR_PARSE, NoPayload, ex.stdout, TRUE, TRUE)
            ELSE ExecutionResult(TRUE, ERR_NONE, pl, ex.stdout, TRUE, TRUE)
    ELSE ExecutionResult(FALSE, ERR_RETURN_CODE, NoPayload, ex.stdout, TRUE, TRUE)

\* asyncio.TimeoutError out of wait_for: the docker backend catches it as
\* an Exception, the subprocess backend lets it reach execute.
ResultOfTimeout(st) ==
    IF st = DOCKER
    THEN ExecutionResult(FALSE, ERR_DOCKER, NoPayload, <<>>, FALSE, TRUE)
    ELSE ExecutionResult(FALSE, ERR_TIMEOUT, NoPayload, <<>>, FALSE, TRUE)

\* An exception out of create_subprocess_exec.
ResultOfSpawnFailure(st) ==
    IF st = DOCKER
    THEN ExecutionResult(FALSE, ERR_DOCKER, NoPayload, <<>>, FALSE, TRUE)
    ELSE ExecutionResult(FALSE, ERR_EXECUTION, NoPayload, <<>>, FALSE, TRUE)

SUCCEEDED == "Succeeded"
FAILED == "Failed"
TIMED_OUT == "TimedOut"
ResultClass(r) ==
    IF r.success THEN SUCCEEDED
    ELSE IF r.error = ERR_TIMEOUT THEN TIMED_OUT ELSE FAILED

ImportsOutsideAllowlist(a) ==
    a.origin = ORIGIN_FORMATTED
    /\ \E i \in DOMAIN a.lines : a.lines[i].txt = IMPORT_SOCKET

\* The child: how it ended.  completed tells whether the user code ran to
\* its end inside the wrapper script.
ChildExitOf(rc, done, out) == [rc |-> rc, completed |-> done, stdout |-> out]
NoExit == ChildExitOf(0, FALSE, <<>>)
ChildExits ==
    {ChildExitOf(0, TRUE, out) : out \in Stdouts}
    \cup {ChildExitOf(0, FALSE, <<OUT_OBJECT>>), ChildExitOf(1, FALSE, <<>>)}

(***************************************************************************)
(* DateExtractor.  The patterns read the lowercased query as words that    *)
(* single spaces separate; a date token "YYYYMM" is the number it spells.  *)
(***************************************************************************)
MaxPhrases == 2

W_MONTH == "a month name"
W_NUMBER == "a number"
W_Q == "q1..q4"
W_ORDINAL == "first..fourth"
W_QUARTER == "quarter"
W_LAST == "last"
W_MONTHS == "months"
W_YEAR == "year"
W_TO == "to"
W_HURRICANE == "hurricane"
W_STORM == "a storm name"
W_TREND == "trend"
W_OTHER == "sales"

Word(k, v) == [k |-> k, v |-> v]

\* The phrases the queries are made of.
QueryPhrases ==
    { <<Word(W_MONTH, 6), Word(W_NUMBER, 2099)>>,
      <<Word(W_MONTH, 6), Word(W_NUMBER, 2023)>>,
      <<Word(W_MONTH, 3), Word(W_TO, 0), Word(W_MONTH, 6)>>,
      <<Word(W_MONTH, 6), Word(W_TO, 0), Word(W_MONTH, 3)>>,
      <<Word(W_Q, 1), Word(W_NUMBER, 2023)>>,
      <<Word(W_ORDINAL, 4), Word(W_QUARTER, 0), Word(W_NUMBER, 2031)>>,
      <<Word(W_YEAR, 0), Word(W_NUMBER, 2023)>>,
      <<Word(W_NUMBER, 52023)>>,
      <<Word(W_LAST, 0), Word(W_NUMBER, 3), Word(W_MONTHS, 0)>>,
      <<Word(W_LAST, 0), Word(W_NUMBER, 2023), Word(W_MONTHS, 0)>>,
      <<Word(W_LAST, 0), Word(W_NUMBER, 30000), Word(W_MONTHS, 0)>>,
      <<Word(W_LAST, 0), Word(W_NUMBER, 0), Word(W_MONTHS, 0)>>,
      <<Word(W_LAST, 0), Word(W_QUARTER, 0)>>,
      <<Word(W_LAST, 0), Word(W_YEAR, 0)>>,
      <<Word(W_HURRICANE, 0), Word(W_STORM, 1)>>,
      <<Word(W_HURRICANE, 0), Word(W_STORM, 4)>>,
      <<Word(W_STORM, 1)>>,
      <<Word(W_TREND, 0)>>,
      <<Word(W_OTHER, 0)>> }

RECURSIVE PhraseQueries(_)
PhraseQueries(n) ==
    IF n = 0 THEN {<<>>}
    ELSE PhraseQueries(n - 1)
         \cup {q \o p : q \in PhraseQueries(n - 1), p \in QueryPhrases}

WordQueries == PhraseQueries(MaxPhrases)

\* datetime.now(), as far as the patterns read it.
Date(y, m) == [year |-> y, month |-> m]
Nows == {Date(2026, 2), Date(2026, 11)}

MINYEAR == 1
MIN_TOKEN_YEAR == 2020
MAX_TOKEN_YEAR == 2030

\* f"{year}{month:02d}"
Token(year, month) == year * 100 + month

RECURSIVE Digits(_)
Digits(n) == IF n < 10 THEN 1 ELSE 1 + Digits(n \div 10)

\* (\d{4}) right after \s+: the first four digits of the number.
RECURSIVE FirstFour(_)
FirstFour(n) == IF n < 10000 THEN n ELSE FirstFour(n \div 10)

\* (\d{4})(?!\d): the last four digits of the number.
LastFour(n) == n % 10000

IsYearWord(w) == w.k = W_NUMBER /\ Digits(w.v) >= 4

Range(s) == {s[i] : i \in DOMAIN s}

RECURSIVE MonthYearFrom(_, _)
MonthYearFrom(words, i) ==
    IF i >= Len(words) THEN <<>>
    ELSE IF words[i].k = W_MONTH /\ IsYearWord(words[i + 1])
    THEN <<Token(FirstFour(words[i + 1].v), words[i].v)>>
         \o MonthYearFrom(words, i + 2)
    ELSE MonthYearFrom(words, i + 1)

\* DateExtractor._extract_month_year_patterns
_extract_month_year_patterns(words) == MonthYearFrom(words, 1)

\* quarter_map
QuarterTokens(year, q) == [j \in 1..3 |-> Token(year, 3 * (q - 1) + j)]

RECURSIVE QuarterFrom(_, _)
QuarterFrom(words, i) ==
    IF i >= Len(words) THEN <<>>
    ELSE IF words[i].k = W_Q /\ IsYearWord(words[i + 1])
    THEN QuarterTokens(FirstFour(words[i + 1].v), words[i].v)
         \o QuarterFrom(words, i + 2)
    ELSE IF /\ i + 2 <= Len(words)
            /\ words[i].k = W_ORDINAL
            /\ words[i + 1].k = W_QUARTER
            /\ IsYearWord(words[i + 2])
    THEN QuarterTokens(FirstFour(words[i + 2].v), words[i].v)
         \o QuarterFrom(words, i + 3)
    ELSE QuarterFrom(words, i + 1)

\* DateExtractor._extract_quarter_patterns
_extract_quarter_patterns(words) == QuarterFrom(words, 1)

YearTokens(year) == [m \in 1..12 |-> Token(year, m)]

RECURSIVE YearFrom(_, _, _)
YearFrom(words, now, i) ==
    IF i > Len(words) THEN <<>>
    ELSE IF /\ IsYearWord(words[i])
            /\ MIN_TOKEN_YEAR <= LastFour(words[i].v)
            /\ LastFour(words[i].v) <= now.year + 1
    THEN YearTokens(LastFour(words[i].v)) \o YearFrom(words, now, i + 1)
    ELSE YearFrom(words, now, i + 1)

\* DateExtractor._extract_year_patterns
_extract_year_patterns(words, now) == YearFrom(words, now, 1)

\* current_date - relativedelta(months=i): the months since year 0.
MonthIndex(now) == now.year * 12 + now.month - 1
YearBefore(now, i) == (MonthIndex(now) - i) \div 12
MonthBefore(now, i) == ((MonthIndex(now) - i) % 12) + 1

\* last\s+(\d+)\s+months?
IsLastMonthsAt(words, i) ==
    /\ i + 2 <= Len(words)
    /\ words[i].k = W_LAST
    /\ words[i + 1].k = W_NUMBER
    /\ words[i + 2].k = W_MONTHS

HasLastMonths(words) == \E i \in DOMAIN words : IsLastMonthsAt(words, i)

\* int(last_matches[0])
months_back(words) ==
    words[(CHOOSE i \in DOMAIN words :
              /\ IsLastMonthsAt(words, i)
              /\ \A j \in 1..(i - 1) : ~IsLastMonthsAt(words, j)) + 1].v

Adjacent(words, k1, k2) ==
    \E i \in DOMAIN words :
        i < Len(words) /\ words[i].k = k1 /\ words[i + 1].k = k2

\* The loop over range(months_back) raises ValueError at the first date
\* whose year falls below datetime.MINYEAR; the years only go down, so it
\* raises exactly when its last round does.
RelativeRaises(words, now) ==
    /\ HasLastMonths(words)
    /\ months_back(words) > 0
    /\ YearBefore(now, months_back(words) - 1) < MINYEAR

PreviousQuarter(now) ==
    IF (now.month - 1) \div 3 + 1 = 1
    THEN QuarterTokens(now.year - 1, 4)
    ELSE QuarterTokens(now.year, (now.month - 1) \div 3)

\* DateExtractor._extract_relative_dates_advanced, when it returns.
_extract_relative_dates_advanced(words, now) ==
    IF HasLastMonths(words)
    THEN [i \in 1..months_back(words) |->
             Token(YearBefore(now, i - 1), MonthBefore(now, i - 1))]
    ELSE IF Adjacent(words, W_LAST, W_QUARTER) THEN PreviousQuarter(now)
    ELSE IF Adjacent(words, W_LAST, W_YEAR) THEN YearTokens(now.year - 1)
    ELSE <<>>

\* hurricane_dates, in the order of the dict: ian, ida, laura, harvey.
hurricane_dates ==
    << <<202209, 202208>>, <<202108, 202107>>,
       <<202008, 202007>>, <<201708, 201707>> >>

NamesStorm(words, s) ==
    \E i \in DOMAIN words :
        /\ i < Len(words)
        /\ words[i].k = W_HURRICANE
        /\ words[i + 1] = Word(W_STORM, s)

\* DateExtractor._extract_hurricane_dates
_extract_hurricane_dates(words) ==
    IF \E s \in DOMAIN hurricane_dates : NamesStorm(words, s)
    THEN hurricane_dates[CHOOSE s \in DOMAIN hurricane_dates :
                            /\ NamesStorm(words, s)
                            /\ \A r \in 1..(s - 1) : ~NamesStorm(words, r)]
    ELSE <<>>

MonthsFromTo(year, start, end) ==
    IF start <= end
    THEN [j \in 1..(end - start + 1) |-> Token(year, start + j - 1)]
    ELSE <<>>

RECURSIVE RangeFrom(_, _, _)
RangeFrom(words, now, i) ==
    IF i + 2 > Len(words) THEN <<>>
    ELSE IF /\ words[i].k = W_MONTH
            /\ words[i + 1].k = W_TO
            /\ words[i + 2].k = W_MONTH
    THEN IF i + 3 <= Len(words) /\ IsYearWord(words[i + 3])
         THEN MonthsFromTo(FirstFour(words[i + 3].v), words[i].v, words[i + 2].v)
              \o RangeFrom(words, now, i + 4)
         ELSE MonthsFromTo(now.year, words[i].v, words[i + 2].v)
              \o RangeFrom(words, now, i + 3)
    ELSE RangeFrom(words, now, i + 1)

\* DateExtractor._extract_month_ranges
_extract_month_ranges(words, now) == RangeFrom(words, now, 1)

\* The test of _clean_and_validate_dates on one token.
IsValidToken(t) ==
    /\ Digits(t) = 6
    /\ MIN_TOKEN_YEAR <= t \div 100
    /\ t \div 100 <= MAX_TOKEN_YEAR
    /\ 1 <= t % 100
    /\ t % 100 <= 12

\* sorted(list(set(...))): the element at place i has i - 1 smaller ones.
SortedSeq(S) ==
    [i \in 1..Cardinality(S) |->
        CHOOSE x \in S : Cardinality({y \in S : y < x}) = i - 1]

\* _clean_and_validate_dates without its test of the year.
clean_without_year_test(extracted_dates) ==
    SortedSeq({t \in Range(extracted_dates) :
                  Digits(t) = 6 /\ 1 <= t % 100 /\ t % 100 <= 12})

\* DateExtractor._clean_and_validate_dates
_clean_and_validate_dates(extracted_dates) ==
    SortedSeq({t \in Range(extracted_dates) : IsValidToken(t)})

DATES_NONE == "None"
DATES_LIST == "list"
DATES_RAISED == "ValueError"

\* What a call that yields a list of tokens, or None, can end with.
NoDates == [kind |-> DATES_NONE, dates |-> <<>>]
DateList(tokens) == [kind |-> DATES_LIST, dates |-> tokens]
DatesRaised == [kind |-> DATES_RAISED, dates |-> <<>>]

\* Python's truth value of a list or None.
Truthy(d) == d.kind = DATES_LIST /\ d.dates # <<>>

\* Patterns 1 and 2.
SpecificDates(words) ==
    _extract_month_year_patterns(words) \o _extract_quarter_patterns(words)

\* Pattern 3 runs "if not extracted_dates".
WithYears(words, now, specific) ==
    IF specific = <<>> THEN _extract_year_patterns(words, now) ELSE specific

\* Patterns 1 to 6, in the order they extend extracted_dates.
AdvancedDates(words, now) ==
    WithYears(words, now, SpecificDates(words))
    \o _extract_relative_dates_advanced(words, now)
    \o _extract_hurricane_dates(words)
    \o _extract_month_ranges(words, now)

\* "if extracted_dates: return self._clean_and_validate_dates(...)",
\* "return None" otherwise.
CleanedOrNone(extracted_dates) ==
    IF extracted_dates # <<>>
    THEN DateList(_clean_and_validate_dates(extracted_dates))
    ELSE NoDates

\* DateExtractor._extract_dates_advanced, with dateutil installed.
_extract_dates_advanced(words, now) ==
    IF RelativeRaises(words, now) THEN DatesRaised
    ELSE CleanedOrNone(AdvancedDates(words, now))

BasicDates(words, now) ==
    _extract_month_year_patterns(words)
    \o (IF Adjacent(words, W_LAST, W_YEAR)
        THEN YearTokens(now.year - 1) ELSE <<>>)
    \o _extract_hurricane_dates(words)

\* DateExtractor._extract_dates_basic
_extract_dates_basic(words, now) == CleanedOrNone(BasicDates(words, now))

\* DateExtractor.extract_dates: the advanced patterns when dateutil can be
\* imported, the basic ones on ImportError.
extract_dates(words, now, dateutil) ==
    IF dateutil THEN _extract_dates_advanced(words, now)
    ELSE _extract_dates_basic(words, now)

(***************************************************************************)
(* KGFileManager.  A name under kg_path is the digits of a number, then    *)
(* some letters, then an extension; a path is written as its name, kg_path *)
(* being the same for all.                                                 *)
(***************************************************************************)
MaxFiles == 26

EXT_JSON == ".json"
EXT_TXT == ".txt"
ExtLen(ext) == IF ext = EXT_JSON THEN 5 ELSE 4

Name(stem, letters, ext) == [stem |-> stem, letters |-> letters, ext |-> ext]

\* f"{kg_path}/{date}.json"
PathOf(date) == Name(date, 0, EXT_JSON)

DIR_MISSING == "no such path"
DIR_NOT_A_DIRECTORY == "a regular file"
DIR_LISTED == "a directory"

\* What is on disk at kg_path.
Disk(kind, entries) == [kind |-> kind, entries |-> entries]
MissingDir == Disk(DIR_MISSING, {})
NotADir == Disk(DIR_NOT_A_DIRECTORY, {})
Listed(entries) == Disk(DIR_LISTED, entries)

\* The i-th month from January 2020 on.
NthToken(i) == Token(2020 + ((i - 1) \div 12), ((i - 1) % 12) + 1)
FirstMonths(n) == {PathOf(NthToken(i)) : i \in 1..n}

\* Names _get_available_files has to leave out: 2022.json, 201912.json,
\* 202213.json, 20220x.json, 202201.txt.
OtherNames ==
    { Name(2022, 0, EXT_JSON), Name(201912, 0, EXT_JSON),
      Name(202213, 0, EXT_JSON), Name(20220, 1, EXT_JSON),
      Name(202201, 0, EXT_TXT) }

OtherNameSets == {{}, OtherNames} \cup {{n} : n \in OtherNames}

KGDirs ==
    {MissingDir, NotADir}
    \cup {Listed(FirstMonths(n) \cup o) : n \in 0..MaxFiles, o \in OtherNameSets}

\* os.path.exists(file_path)
Exists(path, dir) == dir.kind = DIR_LISTED /\ path \in dir.entries

RECURSIVE FilesFrom(_, _, _)
FilesFrom(dates, dir, i) ==
    IF i > Len(dates) THEN <<>>
    ELSE IF Exists(PathOf(dates[i]), dir)
    THEN <<PathOf(dates[i])>> \o FilesFrom(dates, dir, i + 1)
    ELSE FilesFrom(dates, dir, i + 1)

\* KGFileManager._get_files_for_dates
_get_files_for_dates(dates, dir) == FilesFrom(dates, dir, 1)

\* KGFileManager._is_valid_date_format on file[:-5]
_is_valid_date_format(name) ==
    /\ Digits(name.stem) + name.letters = 6
    /\ name.letters = 0
    /\ MIN_TOKEN_YEAR <= name.stem \div 100
    /\ name.stem \div 100 <= MAX_TOKEN_YEAR
    /\ 1 <= name.stem % 100
    /\ name.stem % 100 <= 12

\* The test of a listed name reduced to its extension.
IsPartitionName_by_extension(name) == name.ext = EXT_JSON

\* file.endswith('.json') and len(file) == 11 and the test of the name.
IsPartitionName(name) ==
    /\ name.ext = EXT_JSON
    /\ Digits(name.stem) + name.letters + ExtLen(name.ext) = 11
    /\ _is_valid_date_format(name)

\* KGFileManager._get_available_files, when os.listdir returns: the
\* partition files, sorted.
_get_available_files(dir) ==
    IF dir.kind = DIR_MISSING THEN <<>>
    ELSE [i \in 1..Cardinality({n \in dir.entries : IsPartitionName(n)}) |->
             PathOf(SortedSeq({n.stem : n \in {m \in dir.entries :
                                                  IsPartitionName(m)}})[i])]

SINGLE_MONTH == "single_month"
MULTI_MONTH == "multi_month"
YEAR_OVER_YEAR == "year_over_year"
SEASONAL == "seasonal"
TimeScopes == {SINGLE_MONTH, MULTI_MONTH, YEAR_OVER_YEAR, SEASONAL}

\* The size of the window _auto_select_files takes.
Window(time_scope) ==
    IF time_scope = SINGLE_MONTH THEN 1
    ELSE IF time_scope = MULTI_MONTH THEN 6
    ELSE IF time_scope = YEAR_OVER_YEAR THEN 24
    ELSE 12

\* s[-k:]
Suffix(s, k) == SubSeq(s, IF k >= Len(s) THEN 1 ELSE Len(s) - k + 1, Len(s))

\* What a call that yields a list of files can end with.
Files(files) == [raised |-> FALSE, files |-> files]
FilesRaised == [raised |-> TRUE, files |-> <<>>]

\* os.listdir(kg_path) raises on a path that is not a directory.
ListdirRaises(dir) == dir.kind = DIR_NOT_A_DIRECTORY

\* KGFileManager._auto_select_files
_auto_select_files(query_analysis, dir) ==
    IF ListdirRaises(dir) THEN FilesRaised
    ELSE Files(Suffix(_get_available_files(dir),
                      Window(query_analysis.time_scope)))

\* Priority 2, and priority 3 when it yields nothing.
FromAnalysis(query_analysis, dir) ==
    IF /\ Truthy(query_analysis.extracted_date_range)
       /\ _get_files_for_dates(query_analysis.extracted_date_range.dates, dir) # <<>>
    THEN Files(_get_files_for_dates(query_analysis.extracted_date_range.dates, dir))
    ELSE _auto_select_files(query_analysis, dir)

\* determine_target_files with priority 1 falling through when it finds
\* no file.
determine_target_files_falling_through(query_analysis, dir, date_range) ==
    IF Truthy(date_range) /\ _get_files_for_dates(date_range.dates, dir) # <<>>
    THEN Files(_get_files_for_dates(date_range.dates, dir))
    ELSE FromAnalysis(query_analysis, dir)

\* KGFileManager.determine_target_files
determine_target_files(query_analysis, dir, date_range) ==
    IF Truthy(date_range)
    THEN Files(_get_files_for_dates(date_range.dates, dir))
    ELSE FromAnalysis(query_analysis, dir)

(***************************************************************************)
(* The pipeline: KGQueryAgent.process_query and the execution it awaits.   *)
(***************************************************************************)
VARIABLES
    pc,              \* where process_query stands
    query,           \* its argument
    analysis,        \* query_analysis
    target_files,    \* the files chosen for the query
    generated,       \* generated_code
    fmt,             \* what format_and_validate returned
    formatted_code,  \* the artifact handed to the executor
    strategy,        \* SecureCodeExecutor.execution_strategy
    xpc,             \* where SecureCodeExecutor.execute stands
    child,           \* the child process (or container)
    exit,            \* how the child ended
    expired,         \* execution_timeout has elapsed since the spawn
    script,          \* the temporary script exists
    spawned,         \* children spawned so far
    results,         \* the results execute has returned so far
    formatted_data,  \* what format_results returned
    query_words,     \* the query again, as the words the patterns read
    kg_dir,          \* what is on disk at kg_path
    date_range,      \* the caller's date_range
    extracted_dates, \* what extract_dates returned to _analyze_basic
    llm_code,        \* what the backend answers to the code prompt
    result_data,     \* the object the child's JSON object lines hold
    insights,        \* what generate_insights returned
    calls,           \* the executions in flight on the shared executor
    tmp              \* the temporary files and directories that exist

vars == <<pc, query, analysis, target_files, generated, fmt, formatted_code,
          strategy, xpc, child, exit, expired, script, spawned, results,
          formatted_data, query_words, kg_dir, date_range, extracted_dates, llm_code, result_data,
                   insights, calls, tmp>>

\* What the pipeline finds at kg_path: nothing, or one partition file.
KG_FILE == PathOf(202201)
PipelineDirs == {MissingDir, Listed({KG_FILE})}

\* What the pipeline's generator may hand over: lines at column 0.
PipelineTexts == {IMPORT_JSON, IMPORT_SOCKET, TRY, RESULTS, PROSE, MIXQ}
PipelineCodes == SeqsUpTo({Line(0, t) : t \in PipelineTexts}, MaxGenLines)

LLM_RAISES == "the call raises"
LLM_NO_JSON == "no json object in the reply"
LLM_WITH_TYPE == "an object with a type"
LLM_WITHOUT_TYPE == "an object without a type"
LLM_ABSENT == "no model is configured"
LLMReplies ==
    {LLM_ABSENT, LLM_RAISES, LLM_NO_JSON, LLM_WITH_TYPE, LLM_WITHOUT_TYPE}

\* The backend's answer to the code prompt of _generate_with_llm: no
\* backend, a call that raises, or a text.
LLM_TEXT == "the call returns a text"
LLMCode(kind, code) == [kind |-> kind, code |-> code]
NoLLMCode == LLMCode(LLM_ABSENT, <<>>)
PipelineReplies ==
    {LLMCode(LLM_RAISES, <<>>)}
    \cup {LLMCode(LLM_TEXT, code) : code \in PipelineCodes}

\* "if self.llm" fails, or _analyze_with_llm raises.
UsesKeywords(reply) == reply \in {LLM_ABSENT, LLM_RAISES, LLM_NO_JSON}

\* query_analysis: target_node_types tells that the key holds node types,
\* query_pattern that it holds a pattern other than 'general'.  The
\* rule-based analysis has both; a reply of the model with a type is the
\* object the prompt asks for, one without a type is a bare object.
QueryAnalysis(has_type, by_llm, dates, time_scope) ==
    [has_type |-> has_type, by_llm |-> by_llm,
     extracted_date_range |-> dates, time_scope |-> time_scope,
     target_node_types |-> (~by_llm \/ has_type),
     query_pattern |-> (~by_llm \/ has_type)]

HasWord(words, k) == \E i \in DOMAIN words : words[i].k = k

\* QueryAnalyzer._classify_query_type, as far as time_scope goes.
_classify_query_type(words) ==
    IF ~HasWord(words, W_HURRICANE) /\ HasWord(words, W_TREND)
    THEN MULTI_MONTH ELSE SINGLE_MONTH

\* QueryAnalyzer._analyze_basic, once extract_dates has returned dates.
_analyze_basic(words, dates) ==
    QueryAnalysis(TRUE, FALSE, IF Truthy(dates) THEN dates ELSE NoDates,
                  _classify_query_type(words))

\* QueryAnalyzer.analyze_query: the reply of the model when it is a JSON
\* object, the rule-based analysis otherwise.
analyze_query(reply, words, dates) ==
    IF UsesKeywords(reply) THEN _analyze_basic(words, dates)
    ELSE QueryAnalysis(reply = LLM_WITH_TYPE, TRUE, NoDates, SINGLE_MONTH)

NoAnalysis == QueryAnalysis(FALSE, FALSE, NoDates, SINGLE_MONTH)
NoFormat == [code |-> <<>>, is_valid |-> FALSE, errors |-> <<>>, exc |-> FALSE]
NoArtifact == FormattedArtifact(<<>>)

PC_ANALYZE == "analyze_query"
PC_FILES == "determine_target_files"
PC_GENERATE == "generate_query_code"
PC_FORMAT == "format_and_validate"
PC_EXECUTE == "_execute_code_safely"
PC_AWAIT == "await executor.execute"
PC_RESULTS == "format_results"
PC_INSIGHTS == "generate_insights"
PC_RETURNED == "returned"
PC_RAISED == "raised"
PC_CANCELLED == "cancelled"
PC_IDLE == "idle"

X_IDLE == "idle"
X_WAITING == "wait_for(process.communicate())"
X_RETURNED == "returned"
X_CANCELLED == "cancelled"

CHILD_NONE == "none"
CHILD_RUNNING == "running"
CHILD_EXITED == "exited"

DATA_NONE == "none"
DATA_ERROR == "error"
DATA_OK == "data"

(***************************************************************************)
(* ResultFormatter.  The object a child prints is its data, a list of      *)
(* items or something else, and its summary.                               *)
(***************************************************************************)
MaxItems == 2

ITEM_EMPTY == "{}"
ITEM_FOOD == "{node_type: sbu, node_id: 20220101_FOOD, st_cd: 100}"
ITEM_HOME == "{node_type: store, node_id: 20220102_HOME}"
ITEM_NUMBER == "7"
ITEM_NUMERIC_ID == "{node_id: 5}"
Items == {ITEM_EMPTY, ITEM_FOOD, ITEM_HOME, ITEM_NUMBER, ITEM_NUMERIC_ID}

KEY_ABSENT == "no such key"
A_LIST == "a list"
NOT_A_LIST == "a value that is no list"
A_DICT == "{total_records: 1}"
EMPTY_DICT == "an empty dict"
NOT_A_DICT == "a text"

ResultData(data_kind, items, summary) ==
    [data_kind |-> data_kind, items |-> items, summary |-> summary]

\* The object {}.
NoResultData == ResultData(KEY_ABSENT, <<>>, KEY_ABSENT)

ResultDatas ==
    {ResultData(k, <<>>, s) :
         k \in {KEY_ABSENT, NOT_A_LIST},
         s \in {KEY_ABSENT, EMPTY_DICT, A_DICT, NOT_A_DICT}}
    \cup {ResultData(A_LIST, items, s) :
              items \in SeqsUpTo(Items, MaxItems),
              s \in {KEY_ABSENT, EMPTY_DICT, A_DICT, NOT_A_DICT}}

\* The wrapper's except clause prints {"error", "traceback", "data": [],
\* "metadata"}.
WrapperErrorData == ResultData(A_LIST, <<>>, KEY_ABSENT)

\* {'data': [], 'raw_output': ...}, the result when no line is JSON.
RawOutputData == ResultData(A_LIST, <<>>, KEY_ABSENT)

\* What the pipeline's children print when the user code completes.
PipelineResultData ==
    {ResultData(A_LIST, <<ITEM_FOOD>>, A_DICT),
     ResultData(A_LIST, <<ITEM_NUMBER>>, KEY_ABSENT)}

\* The objects a child that ended with ex may have printed.
PrintedBy(ex) ==
    IF ex.rc # 0 \/ \A i \in DOMAIN ex.stdout : ex.stdout[i] # OUT_OBJECT
    THEN {NoResultData}
    ELSE IF ~ex.completed THEN {WrapperErrorData}
    ELSE PipelineResultData

KEYS_ERROR == {"error"}
KEYS_DATA ==
    {"query_type", "data", "metadata", "summary", "timestamp", "schema_info"}

FormattedData(kind, keys, data, node_types_used, query_pattern) ==
    [kind |-> kind, keys |-> keys, data_kind |-> data.data_kind,
     items |-> data.items, summary |-> data.summary,
     node_types_used |-> node_types_used, query_pattern |-> query_pattern]

\* format_results has not returned, or raised.
NoFormatted == FormattedData(DATA_NONE, {}, NoResultData, FALSE, FALSE)

\* The payload is a dict, so that raw_results.get works.
PayloadIsObject(r) ==
    \/ r.payload.kind = PAYLOAD_RAW
    \/ r.payload.kind = PAYLOAD_LINE /\ r.stdout[r.payload.line] = OUT_OBJECT

\* execution_result.get('result', {}), when it is a dict.
RawResults(r, printed) ==
    IF r.payload.kind = PAYLOAD_RAW THEN RawOutputData ELSE printed

\* ResultFormatter.format_results: kind DATA_NONE stands for an exception,
\* the KeyError of query_analysis['type'] or the AttributeError of
\* raw_results.get.
format_results(r, qa, printed) ==
    IF ~r.success
    THEN FormattedData(DATA_ERROR, KEYS_ERROR, NoResultData, FALSE, FALSE)
    ELSE IF ~qa.has_type \/ ~PayloadIsObject(r) THEN NoFormatted
    ELSE FormattedData(DATA_OK, KEYS_DATA, RawResults(r, printed),
                       qa.target_node_types, qa.query_pattern)

I_FAILED == "Query execution failed: ..."
I_FOUND == "Found N data points matching your query"
I_FOCUS == "Analysis focused on: ... level data"
I_COMMON == "Most common data type: ..."
I_BOTH == "Data includes both FOOD (n) and HOME (m) SBUs"
I_PRIMARY == "Data primarily from ... SBU (n records)"
I_ONE_DATE == "Data from a single date: ..."
I_DATES == "Data spans N different dates"
I_STORES == "Data covers N unique stores"
I_SUMMARY == "Total Records: 1"
I_PATTERN == "Query pattern used: ..."
I_GENERIC == "Query completed successfully"

Insights(raised, list) == [raised |-> raised, list |-> list]
InsightsRaised == Insights(TRUE, <<>>)
NoInsights == Insights(FALSE, <<>>)

\* item.get exists.
IsDict(item) == item # ITEM_NUMBER

\* item.get('node_type', 'unknown')
NodeType(item) ==
    CASE item = ITEM_FOOD -> "sbu"
      [] item = ITEM_HOME -> "store"
      [] OTHER -> "unknown"

\* item.get('node_id', '') is a text, so that `'FOOD' in node_id` works.
NodeIdIsText(item) == item # ITEM_NUMERIC_ID

\* node_id[:8], when node_id has eight characters and they are digits.
NodeDates(data) ==
    {IF data[i] = ITEM_FOOD THEN 20220101 ELSE 20220102 :
         i \in {h \in DOMAIN data : data[h] \in {ITEM_FOOD, ITEM_HOME}}}

\* The keys of sbu_counts.
NodeSbus(data) ==
    {data[i] : i \in {h \in DOMAIN data : data[h] \in {ITEM_FOOD, ITEM_HOME}}}

DataInsightsRaise(data) ==
    \E i \in DOMAIN data : ~IsDict(data[i]) \/ ~NodeIdIsText(data[i])

TypeInsights(data) ==
    IF Cardinality({NodeType(data[i]) : i \in DOMAIN data}) > 1
    THEN <<I_COMMON>> ELSE <<>>

SbuInsights(data) ==
    IF Cardinality(NodeSbus(data)) = 2 THEN <<I_BOTH>>
    ELSE IF Cardinality(NodeSbus(data)) = 1 THEN <<I_PRIMARY>>
    ELSE <<>>

DateInsights(data) ==
    IF Cardinality(NodeDates(data)) = 1 THEN <<I_ONE_DATE>>
    ELSE IF Cardinality(NodeDates(data)) > 1 THEN <<I_DATES>>
    ELSE <<>>

StoreInsights(data) ==
    IF \E i \in DOMAIN data : data[i] = ITEM_FOOD THEN <<I_STORES>> ELSE <<>>

\* ResultFormatter._generate_data_insights, when it returns.
_generate_data_insights(data) ==
    TypeInsights(data) \o SbuInsights(data) \o DateInsights(data)
    \o StoreInsights(data)

\* "if isinstance(data, list) and len(data) > 0"
HasDataPoints(fd) == fd.data_kind = A_LIST /\ fd.items # <<>>

FoundInsights(fd) ==
    IF HasDataPoints(fd)
    THEN <<I_FOUND>> \o (IF fd.node_types_used THEN <<I_FOCUS>> ELSE <<>>)
         \o _generate_data_insights(fd.items)
    ELSE <<>>

\* "if summary: for key, value in summary.items()"
SummaryInsights(fd) == IF fd.summary = A_DICT THEN <<I_SUMMARY>> ELSE <<>>

PatternInsights(fd) == IF fd.query_pattern THEN <<I_PATTERN>> ELSE <<>>

DerivedInsights(fd) ==
    FoundInsights(fd) \o SummaryInsights(fd) \o PatternInsights(fd)

\* generate_insights without its "if 'error' in formatted_data" branch.
generate_insights_without_error_branch(fd) ==
    IF (HasDataPoints(fd) /\ DataInsightsRaise(fd.items))
       \/ fd.summary = NOT_A_DICT
    THEN InsightsRaised
    ELSE IF DerivedInsights(fd) = <<>> THEN Insights(FALSE, <<I_GENERIC>>)
    ELSE Insights(FALSE, DerivedInsights(fd))

\* ResultFormatter.generate_insights
generate_insights(fd) ==
    IF fd.kind = DATA_ERROR THEN Insights(FALSE, <<I_FAILED>>)
    ELSE IF (HasDataPoints(fd) /\ DataInsightsRaise(fd.items))
            \/ fd.summary = NOT_A_DICT
    THEN InsightsRaised
    ELSE IF DerivedInsights(fd) = <<>> THEN Insights(FALSE, <<I_GENERIC>>)
    ELSE Insights(FALSE, DerivedInsights(fd))

NoCalls == <<>>
NoFiles == {}

\* Nothing printed, nothing derived, no execution in flight, no file.
ExtrasIdle ==
    /\ result_data = NoResultData
    /\ insights = NoInsights
    /\ calls = NoCalls
    /\ tmp = NoFiles

InitRest ==
    /\ analysis = NoAnalysis
    /\ target_files = <<>>
    /\ fmt = NoFormat
    /\ formatted_code = NoArtifact
    /\ strategy \in Strategies
    /\ xpc = X_IDLE
    /\ child = CHILD_NONE
    /\ exit = NoExit
    /\ expired = FALSE
    /\ script = FALSE
    /\ spawned = 0
    /\ results = <<>>
    /\ formatted_data = NoFormatted
    /\ llm_code \in PipelineReplies
    /\ ExtrasIdle

Init ==
    /\ pc = PC_ANALYZE
    /\ query \in Queries
    /\ query_words = <<>>
    /\ kg_dir \in PipelineDirs
    /\ date_range = NoDates
    /\ extracted_dates = NoDates
    /\ generated = <<>>
    /\ InitRest

\* Step 1: query_analysis = self.query_analyzer.analyze_query(query).
\* The clock and whether dateutil is installed are the environment's.
AnalyzeQuery ==
    /\ pc = PC_ANALYZE
    /\ \E reply \in LLMReplies, now \in Nows, dateutil \in BOOLEAN :
         /\ extracted_dates' =
                IF UsesKeywords(reply)
                THEN extract_dates(query_words, now, dateutil)
                ELSE extracted_dates
         /\ analysis' =
                IF extracted_dates'.kind = DATES_RAISED THEN analysis
                ELSE analyze_query(reply, query_words, extracted_dates')
    /\ pc' = IF extracted_dates'.kind = DATES_RAISED
             THEN PC_RAISED ELSE PC_FILES
    /\ UNCHANGED <<query, target_files, generated, fmt, formatted_code,
                   strategy, xpc, child, exit, expired, script, spawned,
                   results, formatted_data, query_words, kg_dir, date_range,
                   llm_code, result_data, insights, calls, tmp>>

\* Step 2: target_files = self.file_manager.determine_target_files(...)
DetermineTargetFiles ==
    /\ pc = PC_FILES
    /\ target_files' =
           determine_target_files(analysis, kg_dir, date_range).files
    /\ pc' = IF determine_target_files(analysis, kg_dir, date_range).raised
             THEN PC_RAISED ELSE PC_GENERATE
    /\ UNCHANGED <<query, analysis, generated, fmt, formatted_code, strategy,
                   xpc, child, exit, expired, script, spawned, results,
                   formatted_data, query_words, kg_dir, date_range,
                   extracted_dates, llm_code, result_data,
                   insights, calls, tmp>>

(***************************************************************************)
(* KGCodeGenerator.  The backend's reply is a text of lines, as generated  *)
(* code is; the template is a fixed program.                               *)
(***************************************************************************)
MaxReplyLines == 3

ReplyTexts ==
    {IMPORT_JSON, RESULTS_ASSIGN, RESULTS, PRINT_RESULTS, PROSE, TRY,
     FENCE_PY, FENCE}
ReplyCodes == SeqsUpTo({Line(0, t) : t \in ReplyTexts}, MaxReplyLines)

\* re.search(r'~~~python\n(.*?)\n~~~', generated_code, re.DOTALL): an opening
\* fence that ends its line, and a line two or more below it that starts
\* with a fence at column 0.
ClosesFence(ln) == ln.ind = 0 /\ ln.txt \in {FENCE, FENCE_PY}

OpensBlock(lines, i) ==
    /\ lines[i].txt = FENCE_PY
    /\ \E j \in DOMAIN lines : j >= i + 2 /\ ClosesFence(lines[j])

HasFencedBlock(lines) == \E i \in DOMAIN lines : OpensBlock(lines, i)

\* The leftmost match, and its shortest group.
FenceStart(lines) ==
    CHOOSE i \in DOMAIN lines :
        /\ OpensBlock(lines, i)
        /\ \A h \in 1..(i - 1) : ~OpensBlock(lines, h)

FenceEnd(lines, i) ==
    CHOOSE j \in DOMAIN lines :
        /\ j >= i + 2
        /\ ClosesFence(lines[j])
        /\ \A h \in (i + 2)..(j - 1) : ~ClosesFence(lines[h])

\* code_match.group(1)
FencedBlock(lines, i) == Join(SubSeq(lines, i + 1, FenceEnd(lines, i) - 1))

\* line.strip().startswith(('import ', 'from ', 'results =', '#'))
StartsFixedCode(t) == t \in {IMPORT_JSON, IMPORT_SOCKET, RESULTS_ASSIGN}

\* start_idx, counted from 1: the first such line, or the first line.
FixStartIndex(lines) ==
    IF \E i \in DOMAIN lines : StartsFixedCode(lines[i].txt)
    THEN CHOOSE i \in DOMAIN lines :
             /\ StartsFixedCode(lines[i].txt)
             /\ \A h \in 1..(i - 1) : ~StartsFixedCode(lines[h].txt)
    ELSE 1

HasPrintResults(lines) == \E i \in DOMAIN lines : lines[i].txt = PRINT_RESULTS

\* "Fix the ending": a last line 'results' becomes the print statement, and
\* the print statement is appended when no line holds it.
FixEnding(fixed_lines) ==
    IF Last(fixed_lines).txt = RESULTS
    THEN Append(Front(fixed_lines), Line(0, PRINT_RESULTS))
    ELSE IF ~HasPrintResults(fixed_lines)
    THEN Append(fixed_lines, Line(0, PRINT_RESULTS))
    ELSE fixed_lines

\* KGCodeGenerator._fix_common_syntax_errors
_fix_common_syntax_errors(code) ==
    Join(FixEnding(SubSeq(Split(code), FixStartIndex(Split(code)),
                          Len(Split(code)))))

\* KGCodeGenerator.validate_and_fix_code: the code when ast.parse accepts
\* it, the fixed code when ast.parse accepts that, the code otherwise.
validate_and_fix_code(code) ==
    IF Parses(code) THEN code
    ELSE IF Parses(_fix_common_syntax_errors(code))
    THEN _fix_common_syntax_errors(code)
    ELSE code

\* KGCodeGenerator._generate_with_llm, from the backend's reply on.
_generate_with_llm(generated_code) ==
    IF HasFencedBlock(Split(generated_code))
    THEN FencedBlock(Split(generated_code),
                     FenceStart(Split(generated_code)))
    ELSE validate_and_fix_code(generated_code)

\* CodeGenerator._generate_with_template: a fixed program that parses.
TemplateCode == <<Line(0, IMPORT_JSON), Line(0, RESULTS_ASSIGN)>>

\* KGCodeGenerator.generate_query_code: the backend's code when there is a
\* backend, the prompt can be built (it reads analysis['type']) and the
\* call returns; the template in every other case.
generate_query_code(reply, analysis_) ==
    IF reply.kind = LLM_TEXT /\ analysis_.has_type
    THEN _generate_with_llm(reply.code)
    ELSE TemplateCode

\* Step 3: generated_code = self.code_generator.generate_query_code(...)
GenerateQueryCode ==
    /\ pc = PC_GENERATE
    /\ generated' = generate_query_code(llm_code, analysis)
    /\ pc' = PC_FORMAT
    /\ UNCHANGED <<query, analysis, target_files, fmt, formatted_code,
                   strategy, xpc, child, exit, expired, script, spawned,
                   results, formatted_data, query_words, kg_dir, date_range,
                   extracted_dates, llm_code, result_data, insights, calls,
                   tmp>>

\* process_query without its "if not is_valid" branch.
ChooseArtifact_without_fallback(f, q, files) ==
    FormattedArtifact(f.code)

\* The artifact process_query keeps after format_and_validate returned f.
ChooseArtifact(f, q, files) ==
    IF f.is_valid THEN FormattedArtifact(f.code)
    ELSE generate_fallback_code(q, files)

\* Step 3.5: format_and_validate, and the fallback when it says invalid.
FormatAndValidate ==
    /\ pc = PC_FORMAT
    /\ \E black \in BlackOutcomes : fmt' = format_and_validate(generated, black)
    /\ formatted_code' = ChooseArtifact(fmt', query, target_files)
    /\ pc' = IF fmt'.exc THEN PC_RAISED ELSE PC_EXECUTE
    /\ UNCHANGED <<query, analysis, target_files, generated, strategy, xpc,
                   child, exit, expired, script, spawned, results,
                   formatted_data, query_words, kg_dir, date_range,
                   extracted_dates, llm_code, result_data,
                   insights, calls, tmp>>

\* execute returns r to _execute_code_safely, which returns it to
\* process_query.
Return(r) ==
    /\ results' = Append(results, r)
    /\ xpc' = X_RETURNED
    /\ script' = FALSE
    /\ pc' = PC_RESULTS

\* Step 4, up to the spawn: the wrapper script is written and the child is
\* started with create_subprocess_exec.
ExecuteSpawn ==
    /\ pc = PC_EXECUTE
    /\ xpc = X_IDLE
    /\ pc' = PC_AWAIT
    /\ xpc' = X_WAITING
    /\ script' = TRUE
    /\ child' = CHILD_RUNNING
    /\ spawned' = spawned + 1
    /\ UNCHANGED <<query, analysis, target_files, generated, fmt,
                   formatted_code, strategy, exit, expired, results,
                   formatted_data, query_words, kg_dir, date_range,
                   extracted_dates, llm_code, result_data,
                   insights, calls, tmp>>

\* create_subprocess_exec raises: no child.
ExecuteSpawnFails ==
    /\ pc = PC_EXECUTE
    /\ xpc = X_IDLE
    /\ Return(ResultOfSpawnFailure(strategy))
    /\ UNCHANGED <<query, analysis, target_files, generated, fmt,
                   formatted_code, strategy, child, exit, expired, spawned,
                   formatted_data, query_words, kg_dir, date_range,
                   extracted_dates, llm_code, result_data,
                   insights, calls, tmp>>

\* The child ends by itself while the parent waits for it.
ChildExit ==
    /\ xpc = X_WAITING
    /\ child = CHILD_RUNNING
    /\ exit' \in ChildExits
    /\ result_data' \in PrintedBy(exit')
    /\ child' = CHILD_EXITED
    /\ UNCHANGED <<pc, query, analysis, target_files, generated, fmt,
                   formatted_code, strategy, xpc, expired, script, spawned,
                   results, formatted_data, query_words, kg_dir, date_range,
                   extracted_dates, llm_code, insights, calls, tmp>>

\* execution_timeout elapses with the child still running.
Expire ==
    /\ xpc = X_WAITING
    /\ child = CHILD_RUNNING
    /\ ~expired
    /\ expired' = TRUE
    /\ UNCHANGED <<pc, query, analysis, target_files, generated, fmt,
                   formatted_code, strategy, xpc, child, exit, script,
                   spawned, results, formatted_data, query_words, kg_dir,
                   date_range, extracted_dates, llm_code, result_data,
                   insights, calls, tmp>>

\* signal.alarm fires in the child: timeout_handler raises TimeoutError,
\* the wrapper's except clause prints the error object, the child exits 0.
ChildAlarm ==
    /\ xpc = X_WAITING
    /\ child = CHILD_RUNNING
    /\ expired
    /\ exit' = ChildExitOf(0, FALSE, <<OUT_OBJECT>>)
    /\ result_data' = WrapperErrorData
    /\ child' = CHILD_EXITED
    /\ UNCHANGED <<pc, query, analysis, target_files, generated, fmt,
                   formatted_code, strategy, xpc, expired, script, spawned,
                   results, formatted_data, query_words, kg_dir, date_range,
                   extracted_dates, llm_code, insights, calls, tmp>>

\* process.communicate() completes: the branch on the return code.
ExecuteCollect ==
    /\ xpc = X_WAITING
    /\ child = CHILD_EXITED
    /\ Return(ResultOfExit(exit))
    /\ UNCHANGED <<query, analysis, target_files, generated, fmt,
                   formatted_code, strategy, child, exit, expired, spawned,
                   formatted_data, query_words, kg_dir, date_range,
                   extracted_dates, llm_code, result_data,
                   insights, calls, tmp>>

\* A timeout answered by a second attempt instead of a result.
ExecuteTimeout_with_retry ==
    /\ xpc = X_WAITING
    /\ expired
    /\ expired' = FALSE
    /\ child' = CHILD_RUNNING
    /\ spawned' = spawned + 1
    /\ UNCHANGED <<pc, query, analysis, target_files, generated, fmt,
                   formatted_code, strategy, xpc, exit, script, results,
                   formatted_data, query_words, kg_dir, date_range,
                   extracted_dates, llm_code, result_data,
                   insights, calls, tmp>>

\* wait_for raises asyncio.TimeoutError; nothing is done to the child.
ExecuteTimeout ==
    /\ xpc = X_WAITING
    /\ expired
    /\ Return(ResultOfTimeout(strategy))
    /\ UNCHANGED <<query, analysis, target_files, generated, fmt,
                   formatted_code, strategy, child, exit, expired, spawned,
                   formatted_data, query_words, kg_dir, date_range,
                   extracted_dates, llm_code, result_data,
                   insights, calls, tmp>>

\* The task awaiting process_query is cancelled: CancelledError passes
\* through every except clause; the finally clause removes the script.
Cancel ==
    /\ xpc = X_WAITING
    /\ xpc' = X_CANCELLED
    /\ pc' = PC_CANCELLED
    /\ script' = FALSE
    /\ UNCHANGED <<query, analysis, target_files, generated, fmt,
                   formatted_code, strategy, child, exit, expired, spawned,
                   results, formatted_data, query_words, kg_dir, date_range,
                   extracted_dates, llm_code, result_data,
                   insights, calls, tmp>>

\* A child nobody waits for any more ends at some time.
OrphanExit ==
    /\ xpc \in {X_RETURNED, X_CANCELLED}
    /\ child = CHILD_RUNNING
    /\ child' = CHILD_EXITED
    /\ UNCHANGED <<pc, query, analysis, target_files, generated, fmt,
                   formatted_code, strategy, xpc, exit, expired, script,
                   spawned, results, formatted_data, query_words, kg_dir,
                   date_range, extracted_dates, llm_code, result_data,
                   insights, calls, tmp>>

\* Step 5: formatted_data = self.result_formatter.format_results(...)
FormatResults ==
    /\ pc = PC_RESULTS
    /\ formatted_data' = format_results(Last(results), analysis, result_data)
    /\ pc' = IF formatted_data'.kind = DATA_NONE THEN PC_RAISED ELSE PC_INSIGHTS
    /\ UNCHANGED <<query, analysis, target_files, generated, fmt,
                   formatted_code, strategy, xpc, child, exit, expired,
                   script, spawned, results, query_words, kg_dir, date_range,
                   extracted_dates, llm_code, result_data, insights, calls,
                   tmp>>

\* Step 6 and the return: generate_insights, then the response is built,
\* reading query_analysis["type"].
GenerateInsights ==
    /\ pc = PC_INSIGHTS
    /\ insights' = generate_insights(formatted_data)
    /\ pc' = IF ~insights'.raised /\ analysis.has_type
             THEN PC_RETURNED ELSE PC_RAISED
    /\ UNCHANGED <<query, analysis, target_files, generated, fmt,
                   formatted_code, strategy, xpc, child, exit, expired,
                   script, spawned, results, formatted_data, query_words,
                   kg_dir, date_range, extracted_dates, llm_code,
                   result_data, calls, tmp>>

Next ==
    \/ AnalyzeQuery
    \/ DetermineTargetFiles
    \/ GenerateQueryCode
    \/ FormatAndValidate
    \/ ExecuteSpawn
    \/ ExecuteSpawnFails
    \/ ChildExit
    \/ Expire
    \/ ChildAlarm
    \/ ExecuteCollect
    \/ ExecuteTimeout
    \/ Cancel
    \/ OrphanExit
    \/ FormatResults
    \/ GenerateInsights

Spec == Init /\ [][Next]_vars

(***************************************************************************)
(* CodeFormatter.format_and_validate called on its own, on every short     *)
(* text of the line vocabulary.                                            *)
(***************************************************************************)
FormatterLines ==
    {Line(i, t) : i \in 0..MaxIndent, t \in InputTexts} \cup {BlankLine}
FormatterCodes == SeqsUpTo(FormatterLines, MaxLines)

InitFormat ==
    /\ pc = PC_FORMAT
    /\ query = <<>>
    /\ query_words = <<>>
    /\ kg_dir = MissingDir
    /\ date_range = NoDates
    /\ extracted_dates = NoDates
    /\ generated \in FormatterCodes
    /\ analysis = NoAnalysis
    /\ target_files = <<>>
    /\ fmt = NoFormat
    /\ formatted_code = NoArtifact
    /\ strategy = SUBPROCESS
    /\ xpc = X_IDLE
    /\ child = CHILD_NONE
    /\ exit = NoExit
    /\ expired = FALSE
    /\ script = FALSE
    /\ spawned = 0
    /\ results = <<>>
    /\ formatted_data = NoFormatted
    /\ llm_code = NoLLMCode
    /\ ExtrasIdle

FormatCall ==
    /\ pc = PC_FORMAT
    /\ \E black \in BlackOutcomes : fmt' = format_and_validate(generated, black)
    /\ pc' = PC_IDLE
    /\ UNCHANGED <<query, analysis, target_files, generated, formatted_code,
                   strategy, xpc, child, exit, expired, script, spawned,
                   results, formatted_data, query_words, kg_dir, date_range,
                   extracted_dates, llm_code, result_data,
                   insights, calls, tmp>>

\* The caller keeps the code of a pass that was flagged valid and hands it
\* to format_and_validate once more.
FormatAgain ==
    /\ pc = PC_IDLE
    /\ fmt.is_valid
    /\ formatted_code' = FormattedArtifact(fmt.code)
    /\ \E black \in BlackOutcomes : fmt' = format_and_validate(fmt.code, black)
    /\ pc' = PC_RETURNED
    /\ UNCHANGED <<query, analysis, target_files, generated, strategy, xpc,
                   child, exit, expired, script, spawned, results,
                   formatted_data, query_words, kg_dir, date_range,
                   extracted_dates, llm_code, result_data,
                   insights, calls, tmp>>

NextFormat ==
    \/ FormatCall
    \/ FormatAgain

SpecFormat == InitFormat /\ [][NextFormat]_vars

(***************************************************************************)
(* QueryAnalyzer.analyze_query called on its own, on every query of up to  *)
(* MaxPhrases phrases.                                                     *)
(***************************************************************************)
InitDates ==
    /\ pc = PC_ANALYZE
    /\ query = <<>>
    /\ query_words \in WordQueries
    /\ kg_dir = MissingDir
    /\ date_range = NoDates
    /\ extracted_dates = NoDates
    /\ generated = <<>>
    /\ analysis = NoAnalysis
    /\ target_files = <<>>
    /\ fmt = NoFormat
    /\ formatted_code = NoArtifact
    /\ strategy = SUBPROCESS
    /\ xpc = X_IDLE
    /\ child = CHILD_NONE
    /\ exit = NoExit
    /\ expired = FALSE
    /\ script = FALSE
    /\ spawned = 0
    /\ results = <<>>
    /\ formatted_data = NoFormatted
    /\ llm_code = NoLLMCode
    /\ ExtrasIdle

NextDates == AnalyzeQuery

SpecDates == InitDates /\ [][NextDates]_vars

(***************************************************************************)
(* KGFileManager.determine_target_files called on its own, on every        *)
(* analysis, caller's list and directory of the sets below.                *)
(***************************************************************************)
\* Lists _validate_date_range or extract_dates can have left in the
\* analysis: 203012 is a token no directory below has a file for.
AnalysisDates ==
    {NoDates, DateList(<<>>), DateList(<<202001>>),
     DateList(<<202002, 203012>>), DateList(<<203012>>)}

Analyses ==
    {QueryAnalysis(TRUE, TRUE, d, s) : d \in AnalysisDates, s \in TimeScopes}

\* Lists a caller can pass: nothing is checked about them.
CallerDates ==
    {NoDates, DateList(<<>>), DateList(<<202001>>), DateList(<<203012>>),
     DateList(<<202002, 202001, 202002>>), DateList(<<2022>>)}

InitFiles ==
    /\ pc = PC_FILES
    /\ query = <<>>
    /\ query_words = <<>>
    /\ kg_dir \in KGDirs
    /\ date_range \in CallerDates
    /\ extracted_dates = NoDates
    /\ generated = <<>>
    /\ analysis \in Analyses
    /\ target_files = <<>>
    /\ fmt = NoFormat
    /\ formatted_code = NoArtifact
    /\ strategy = SUBPROCESS
    /\ xpc = X_IDLE
    /\ child = CHILD_NONE
    /\ exit = NoExit
    /\ expired = FALSE
    /\ script = FALSE
    /\ spawned = 0
    /\ results = <<>>
    /\ formatted_data = NoFormatted
    /\ llm_code = NoLLMCode
    /\ ExtrasIdle

NextFiles == DetermineTargetFiles

SpecFiles == InitFiles /\ [][NextFiles]_vars

(***************************************************************************)
(* process_query on a query that names a month kg_path has no partition    *)
(* file for, "June 2099" or "June 2023".                                   *)
(***************************************************************************)
ScenarioQueries ==
    { <<Word(W_MONTH, 6), Word(W_NUMBER, 2099)>>,
      <<Word(W_MONTH, 6), Word(W_NUMBER, 2023)>> }

ScenarioDirs == {MissingDir, Listed(FirstMonths(1)), Listed(FirstMonths(7))}

InitScenario ==
    /\ pc = PC_ANALYZE
    /\ query = <<CH_LETTER>>
    /\ query_words \in ScenarioQueries
    /\ kg_dir \in ScenarioDirs
    /\ date_range = NoDates
    /\ extracted_dates = NoDates
    /\ generated = <<>>
    /\ InitRest

SpecScenario == InitScenario /\ [][Next]_vars

(***************************************************************************)
(* KGCodeGenerator.generate_query_code called on its own, on every reply   *)
(* of up to MaxReplyLines lines, for an analysis with and without a type.  *)
(***************************************************************************)
GeneratorReplies ==
    {LLMCode(LLM_ABSENT, <<>>), LLMCode(LLM_RAISES, <<>>)}
    \cup {LLMCode(LLM_TEXT, code) : code \in ReplyCodes}

GeneratorAnalyses ==
    {QueryAnalysis(has_type, TRUE, NoDates, SINGLE_MONTH) :
         has_type \in BOOLEAN}

InitGenerate ==
    /\ pc = PC_GENERATE
    /\ query = <<>>
    /\ query_words = <<>>
    /\ kg_dir = MissingDir
    /\ date_range = NoDates
    /\ extracted_dates = NoDates
    /\ generated = <<>>
    /\ analysis \in GeneratorAnalyses
    /\ target_files = <<>>
    /\ fmt = NoFormat
    /\ formatted_code = NoArtifact
    /\ strategy = SUBPROCESS
    /\ xpc = X_IDLE
    /\ child = CHILD_NONE
    /\ exit = NoExit
    /\ expired = FALSE
    /\ script = FALSE
    /\ spawned = 0
    /\ results = <<>>
    /\ formatted_data = NoFormatted
    /\ llm_code \in GeneratorReplies
    /\ ExtrasIdle

NextGenerate == GenerateQueryCode

SpecGenerate == InitGenerate /\ [][NextGenerate]_vars

(***************************************************************************)
(* ResultFormatter called on its own: format_results and generate_insights *)
(* on the result of an execution, for every object of up to MaxItems items *)
(* a child may print.                                                      *)
(***************************************************************************)
\* One child, and what execute made of its end.
FormatterExits ==
    {ChildExitOf(0, TRUE, <<OUT_OBJECT>>), ChildExitOf(0, TRUE, <<OUT_TEXT>>),
     ChildExitOf(0, TRUE, <<OUT_VALUE>>), ChildExitOf(1, FALSE, <<>>)}

FormatterResults ==
    {ResultOfExit(ex) : ex \in FormatterExits}
    \cup {ResultOfTimeout(st) : st \in Strategies}

FormatterAnalyses ==
    {[QueryAnalysis(has_type, TRUE, NoDates, SINGLE_MONTH)
          EXCEPT !.target_node_types = node_types, !.query_pattern = pattern] :
         has_type \in BOOLEAN, node_types \in BOOLEAN, pattern \in BOOLEAN}

InitInsights ==
    /\ pc = PC_RESULTS
    /\ query = <<>>
    /\ query_words = <<>>
    /\ kg_dir = MissingDir
    /\ date_range = NoDates
    /\ extracted_dates = NoDates
    /\ generated = <<>>
    /\ analysis \in FormatterAnalyses
    /\ target_files = <<>>
    /\ fmt = NoFormat
    /\ formatted_code = NoArtifact
    /\ strategy = SUBPROCESS
    /\ xpc = X_RETURNED
    /\ child = CHILD_EXITED
    /\ exit = NoExit
    /\ expired = FALSE
    /\ script = FALSE
    /\ spawned = 1
    /\ \E r \in FormatterResults :
         /\ results = <<r>>
         /\ result_data \in IF r.success /\ r.payload.kind = PAYLOAD_LINE
                                /\ PayloadIsObject(r)
                            THEN ResultDatas ELSE {NoResultData}
    /\ formatted_data = NoFormatted
    /\ llm_code = NoLLMCode
    /\ insights = NoInsights
    /\ calls = NoCalls
    /\ tmp = NoFiles

NextInsights ==
    \/ FormatResults
    \/ GenerateInsights

SpecInsights == InitInsights /\ [][NextInsights]_vars

(***************************************************************************)
(* CodeFormatter._fix_incomplete_try_blocks called on its own, on every    *)
(* text of up to MaxTryLines lines that are try headers, except clauses    *)
(* and statements.                                                         *)
(***************************************************************************)
MaxTryLines == 4

TryTexts == {TRY, EXCEPT_CLAUSE, STMT}
TryCodes ==
    SeqsUpTo({Line(i, t) : i \in 0..MaxIndent, t \in TryTexts}, MaxTryLines)

InitTry ==
    /\ pc = PC_FORMAT
    /\ query = <<>>
    /\ query_words = <<>>
    /\ kg_dir = MissingDir
    /\ date_range = NoDates
    /\ extracted_dates = NoDates
    /\ generated \in TryCodes
    /\ analysis = NoAnalysis
    /\ target_files = <<>>
    /\ fmt = NoFormat
    /\ formatted_code = NoArtifact
    /\ strategy = SUBPROCESS
    /\ xpc = X_IDLE
    /\ child = CHILD_NONE
    /\ exit = NoExit
    /\ expired = FALSE
    /\ script = FALSE
    /\ spawned = 0
    /\ results = <<>>
    /\ formatted_data = NoFormatted
    /\ llm_code = NoLLMCode
    /\ ExtrasIdle

\* lines = self._fix_incomplete_try_blocks(lines), as _advanced_syntax_fix
\* calls it on the lines of the code; fmt.code keeps the lines returned.
FixIncompleteTryBlocks ==
    /\ pc = PC_FORMAT
    /\ fmt' = [NoFormat EXCEPT
                   !.code = _fix_incomplete_try_blocks(Split(generated))]
    /\ pc' = PC_IDLE
    /\ UNCHANGED <<query, analysis, target_files, generated, formatted_code,
                   strategy, xpc, child, exit, expired, script, spawned,
                   results, formatted_data, query_words, kg_dir, date_range,
                   extracted_dates, llm_code, result_data, insights, calls,
                   tmp>>

NextTry == FixIncompleteTryBlocks

SpecTry == InitTry /\ [][NextTry]_vars

(***************************************************************************)
(* Several executions in flight on the one SecureCodeExecutor of the       *)
(* shared agent (api.py: kg_agent).  calls[i] is the frame of call i:      *)
(* its query, its local script_path (temp_dir under docker), its child     *)
(* and what execute returned to it; tmp is the temporary directory of the  *)
(* machine, the only place the calls write to.                             *)
(***************************************************************************)
MaxCalls == 2

Q_PRINTS == "a query whose script prints its results"
Q_EXITS_1 == "a query whose script exits with 1"
ConcurrentQueries == {Q_PRINTS, Q_EXITS_1}

\* _create_secure_script: the wrapper around the code generated for q.
SecureScript(q) == [wraps |-> q]
NoScript == [wraps |-> ""]

\* How a child that runs script s ends; the partition directory it reads
\* is the same for every call and nobody writes to it.
ExitOfScript(s) ==
    IF s.wraps = Q_PRINTS THEN ChildExitOf(0, TRUE, <<OUT_OBJECT>>)
    ELSE ChildExitOf(1, FALSE, <<>>)

\* python: can't open file: the interpreter exits with 2.
CantOpenExit == ChildExitOf(2, FALSE, <<>>)

Paths == 1..MaxCalls
NoPath == 0

TempFile(path, content) == [path |-> path, content |-> content]

C_IDLE == "not called"
C_CREATED == "script written"
C_WAITING == "wait_for(process.communicate())"
C_RETURNED == "returned"
C_CANCELLED == "cancelled"

K_NONE == "no child"
K_STARTED == "started, its script not opened yet"
K_RUNNING == "running its script"
K_EXITED == "exited"

NoResult == ExecutionResult(FALSE, ERR_NONE, NoPayload, <<>>, FALSE, FALSE)

IdleCall(q) ==
    [pc |-> C_IDLE, query |-> q, script_path |-> NoPath, child |-> K_NONE,
     ran |-> NoScript, exit |-> NoExit, result |-> NoResult]

\* Names handed out so far.  mkstemp picks a random name and creates the
\* file with O_EXCL; names are taken never to come back.
UsedPaths == {calls[j].script_path : j \in DOMAIN calls} \ {NoPath}

\* A temporary-file name that may be any of Paths, used before or not.
AnyPaths(used) == Paths

\* tempfile.NamedTemporaryFile(delete=False) / tempfile.TemporaryDirectory:
\* the names the call can get.
FreshPaths(used) == Paths \ used

\* os.unlink that fails, the failure swallowed by "except: pass".
unlink_failing(files, script_path) == files

\* os.unlink(script_path) in the finally clause (the removal of temp_dir
\* when the with block of the docker backend is left).
unlink(files, script_path) == {f \in files : f.path # script_path}

\* Everything of process_query's own frame is left alone.
PipelineUnchanged ==
    UNCHANGED <<pc, query, analysis, target_files, generated, fmt,
                formatted_code, strategy, xpc, child, exit, expired, script,
                spawned, results, formatted_data, query_words, kg_dir,
                date_range, extracted_dates, llm_code, result_data, insights>>

InitConcurrent ==
    /\ pc = PC_IDLE
    /\ query = <<>>
    /\ query_words = <<>>
    /\ kg_dir = Listed({KG_FILE})
    /\ date_range = NoDates
    /\ extracted_dates = NoDates
    /\ generated = <<>>
    /\ analysis = NoAnalysis
    /\ target_files = <<>>
    /\ fmt = NoFormat
    /\ formatted_code = NoArtifact
    /\ strategy \in Strategies
    /\ xpc = X_IDLE
    /\ child = CHILD_NONE
    /\ exit = NoExit
    /\ expired = FALSE
    /\ script = FALSE
    /\ spawned = 0
    /\ results = <<>>
    /\ formatted_data = NoFormatted
    /\ llm_code = NoLLMCode
    /\ result_data = NoResultData
    /\ insights = NoInsights
    /\ calls \in [1..MaxCalls -> {IdleCall(q) : q \in ConcurrentQueries}]
    /\ tmp = NoFiles

\* Call i writes its wrapper script to a new temporary file.
CallCreate(i) ==
    /\ calls[i].pc = C_IDLE
    /\ \E script_path \in FreshPaths(UsedPaths) :
           /\ calls' = [calls EXCEPT ![i].pc = C_CREATED,
                                     ![i].script_path = script_path]
           /\ tmp' = {f \in tmp : f.path # script_path}
                         \cup {TempFile(script_path, SecureScript(calls[i].query))}
    /\ PipelineUnchanged

\* create_subprocess_exec returns: the child exists and has yet to open
\* the script it was given the path of.
CallSpawn(i) ==
    /\ calls[i].pc = C_CREATED
    /\ calls' = [calls EXCEPT ![i].pc = C_WAITING, ![i].child = K_STARTED]
    /\ UNCHANGED tmp
    /\ PipelineUnchanged

\* create_subprocess_exec raises: the finally clause removes the script,
\* execute returns the failure.
CallSpawnFails(i) ==
    /\ calls[i].pc = C_CREATED
    /\ calls' = [calls EXCEPT ![i].pc = C_RETURNED,
                              ![i].result = ResultOfSpawnFailure(strategy)]
    /\ tmp' = unlink(tmp, calls[i].script_path)
    /\ PipelineUnchanged

\* The child of call i opens the file at the path it was started with and
\* runs what it finds there.
ChildOpens(i) ==
    /\ calls[i].child = K_STARTED
    /\ \E f \in tmp :
           /\ f.path = calls[i].script_path
           /\ calls' = [calls EXCEPT ![i].child = K_RUNNING,
                                     ![i].ran = f.content]
    /\ UNCHANGED tmp
    /\ PipelineUnchanged

\* The child of call i finds no file at its path: the call has returned
\* or was cancelled before the child came to open it.
ChildCantOpen(i) ==
    /\ calls[i].child = K_STARTED
    /\ \A f \in tmp : f.path # calls[i].script_path
    /\ calls' = [calls EXCEPT ![i].child = K_EXITED, ![i].exit = CantOpenExit]
    /\ UNCHANGED tmp
    /\ PipelineUnchanged

\* The child of call i ends as the script it runs makes it end.
ChildEnds(i) ==
    /\ calls[i].child = K_RUNNING
    /\ calls' = [calls EXCEPT ![i].child = K_EXITED,
                              ![i].exit = ExitOfScript(calls[i].ran)]
    /\ UNCHANGED tmp
    /\ PipelineUnchanged

\* process.communicate() completes for call i.
CallCollect(i) ==
    /\ calls[i].pc = C_WAITING
    /\ calls[i].child = K_EXITED
    /\ calls' = [calls EXCEPT ![i].pc = C_RETURNED,
                              ![i].result = ResultOfExit(calls[i].exit)]
    /\ tmp' = unlink(tmp, calls[i].script_path)
    /\ PipelineUnchanged

\* wait_for times out for call i; its child is left as it is.
CallTimeout(i) ==
    /\ calls[i].pc = C_WAITING
    /\ calls[i].child # K_EXITED
    /\ calls' = [calls EXCEPT ![i].pc = C_RETURNED,
                              ![i].result = ResultOfTimeout(strategy)]
    /\ tmp' = unlink(tmp, calls[i].script_path)
    /\ PipelineUnchanged

\* The task of call i is cancelled while it waits.
CallCancel(i) ==
    /\ calls[i].pc = C_WAITING
    /\ calls' = [calls EXCEPT ![i].pc = C_CANCELLED]
    /\ tmp' = unlink(tmp, calls[i].script_path)
    /\ PipelineUnchanged

NextConcurrent ==
    \E i \in 1..MaxCalls :
        \/ CallCreate(i)
        \/ CallSpawn(i)
        \/ CallSpawnFails(i)
        \/ ChildOpens(i)
        \/ ChildCantOpen(i)
        \/ ChildEnds(i)
        \/ CallCollect(i)
        \/ CallTimeout(i)
        \/ CallCancel(i)

SpecConcurrent == InitConcurrent /\ [][NextConcurrent]_vars

(***************************************************************************)
(* Properties.                                                             *)
(***************************************************************************)
\* The executor has been handed the code.
Handed == xpc # X_IDLE

\* C1: the code handed to the executor is the output of format_and_validate
\* when it said is_valid, and the fallback artifact of generate_fallback_code
\* otherwise; code that format_and_validate called invalid is never executed.
C1_ExecutedCodeIsValidatedOrFallback ==
    Handed =>
        \/ fmt.is_valid /\ formatted_code = FormattedArtifact(fmt.code)
        \/ ~fmt.is_valid
           /\ formatted_code = generate_fallback_code(query, target_files)

\* C1 happens: invalid generator output, the fallback was run in a child.
C1_Witness ==
    /\ xpc = X_RETURNED
    /\ spawned = 1
    /\ ~fmt.is_valid
    /\ generated # <<>>
    /\ formatted_code.origin = ORIGIN_FALLBACK

\* C2 (refuted): code importing a module outside the allowlist is rejected
\* by execute with success false, and no child is spawned for it.
C2_ForbiddenImportNeverSpawns ==
    (Handed /\ ImportsOutsideAllowlist(formatted_code)) =>
        /\ spawned = 0
        /\ xpc = X_RETURNED => ~Last(results).success

\* C3 (refuted): when the timeout elapsed during an execution, execute
\* returns with the child terminated and a TimedOut result carrying the
\* elapsed time, whichever of the parent's wait and the child's alarm fired.
C3_TimeoutTerminatesChild ==
    (xpc = X_RETURNED /\ expired) =>
        /\ child # CHILD_RUNNING
        /\ ResultClass(Last(results)) = TIMED_OUT
        /\ Last(results).has_time

\* C4 (refuted): process_query and execute never finish, by cancellation,
\* timeout or error, while the child they spawned is still running.
C4_NoChildOutlivesTheCall ==
    (xpc \in {X_RETURNED, X_CANCELLED}
     \/ pc \in {PC_RETURNED, PC_RAISED, PC_CANCELLED}) => child # CHILD_RUNNING

PENDING == "Pending"
RUNNING == "Running"
CANCELLED == "Cancelled"
\* The phase of the execution request.
ExecPhase ==
    CASE xpc = X_IDLE -> PENDING
      [] xpc = X_WAITING -> RUNNING
      [] xpc = X_CANCELLED -> CANCELLED
      [] OTHER -> ResultClass(Last(results))

\* A step of the request's state machine: Pending to Running, Running to a
\* terminal state; a spawn that fails goes from Pending to Failed, and a
\* cancelled request leaves the machine from Running.
ExecPhaseStep ==
    \/ ExecPhase' = ExecPhase
    \/ ExecPhase = PENDING /\ ExecPhase' \in {RUNNING, FAILED}
    \/ ExecPhase = RUNNING
       /\ ExecPhase' \in {SUCCEEDED, FAILED, TIMED_OUT, CANCELLED}

C6_NoExceptionEscapes == pc # PC_RAISED

\* The user code ran to its end in the child and the child exited with 0.
RanToCompletion == child = CHILD_EXITED /\ exit.rc = 0 /\ exit.completed

\* C7 (refuted): a non-zero exit code, an exception caught by the wrapper or
\* a timeout gives a result with success false that carries stderr; success
\* is reported only when the code ran to completion.
C7_IncompleteRunFailsWithStderr ==
    (xpc = X_RETURNED /\ spawned = 1 /\ ~RanToCompletion) =>
        ~Last(results).success /\ Last(results).has_std

LineParses(k) == k \in {OUT_OBJECT, OUT_VALUE}

\* C8 (refuted): on exit code 0 the payload is the last stdout line that is
\* a JSON object; when no line parses, the result is a success whose payload
\* wraps the raw output; the payload of a success is always a JSON object.
C8_PayloadIsLastJsonObject ==
    (xpc = X_RETURNED /\ child = CHILD_EXITED /\ exit.rc = 0
     /\ Last(results).error # ERR_TIMEOUT /\ Last(results).error # ERR_DOCKER) =>
        LET r == Last(results)
            out == exit.stdout
        IN  /\ r.success => PayloadIsObject(r)
            /\ r.payload.kind = PAYLOAD_LINE =>
                 \A j \in DOMAIN out : j > r.payload.line => out[j] # OUT_OBJECT
            /\ (\A j \in DOMAIN out : ~LineParses(out[j])) =>
                 r.success /\ r.payload.kind = PAYLOAD_RAW

\* C9: format_and_validate raises nothing and returns its triple for every
\* input, and the flag is true only if the returned code parses.
C9_FlagOnlyIfReturnedCodeParses ==
    pc = PC_IDLE =>
        /\ ~fmt.exc
        /\ fmt.is_valid => Parses(fmt.code)

\* C9 happens: an input that does not parse was repaired and flagged valid.
C9_Witness ==
    /\ pc = PC_IDLE
    /\ ~Parses(generated)
    /\ fmt.is_valid
    /\ Parses(fmt.code)

\* C10 (refuted): the fallback artifact parses for every query and every
\* list of files, echoes the query and carries the failure marker.
C10_FallbackAlwaysParses ==
    formatted_code.origin = ORIGIN_FALLBACK =>
        /\ ArtifactParses(formatted_code)
        /\ formatted_code.query = query
        /\ formatted_code.status = FALLBACK_MODE

\* Both passes of format_and_validate met the same outcome of black.
SameBlackInBothPasses ==
    \E black \in BlackOutcomes :
        /\ formatted_code.lines = format_and_validate(generated, black).code
        /\ fmt = format_and_validate(formatted_code.lines, black)

\* C11 (refuted): a second pass of format_and_validate over code that a
\* first pass returned as valid returns that code unchanged.
C11_SecondPassReturnsSameCode ==
    (pc = PC_RETURNED /\ SameBlackInBothPasses) => fmt.code = formatted_code.lines


\* C12 (refuted): analyze_query never fails: whatever the backend does,
\* the call returns an analysis, and the keyword analysis returns for every
\* query, "last N months" included.
C12_AnalyzeQueryAlwaysReturns ==
    pc # PC_ANALYZE =>
        /\ pc = PC_FILES
        /\ extracted_dates.kind # DATES_RAISED

\* The files of the dates that have one, in the order of the dates.
MappedToExisting(dates, dir) ==
    [j \in 1..Cardinality({i \in DOMAIN dates : Exists(PathOf(dates[i]), dir)}) |->
        PathOf(dates[SortedSeq({i \in DOMAIN dates :
                                   Exists(PathOf(dates[i]), dir)})[j]])]

\* C13: determine_target_files answers a non-empty caller's list with the
\* existing files of that list, even when there is none; otherwise with the
\* existing files of analysis.extracted_date_range when there is at least
\* one; and only otherwise with the automatic selection.
C13_ResolutionPriority ==
    pc = PC_GENERATE =>
        IF Truthy(date_range)
        THEN target_files = MappedToExisting(date_range.dates, kg_dir)
        ELSE IF /\ Truthy(analysis.extracted_date_range)
                /\ MappedToExisting(analysis.extracted_date_range.dates,
                                    kg_dir) # <<>>
        THEN target_files =
                 MappedToExisting(analysis.extracted_date_range.dates, kg_dir)
        ELSE target_files = _auto_select_files(analysis, kg_dir).files

\* The caller's list names no existing file while the analysis does: the
\* answer is empty all the same.
C13_Witness ==
    /\ pc = PC_GENERATE
    /\ Truthy(date_range)
    /\ target_files = <<>>
    /\ Truthy(analysis.extracted_date_range)
    /\ MappedToExisting(analysis.extracted_date_range.dates, kg_dir) # <<>>
    /\ _auto_select_files(analysis, kg_dir).files # <<>>

\* determine_target_files got as far as the automatic selection.
AutoSelected ==
    /\ pc = PC_GENERATE
    /\ ~Truthy(date_range)
    /\ \/ ~Truthy(analysis.extracted_date_range)
       \/ MappedToExisting(analysis.extracted_date_range.dates, kg_dir) = <<>>

\* The entries of kg_dir named by a valid token and ".json".
ValidPartitions ==
    {n \in kg_dir.entries :
        n.ext = EXT_JSON /\ n.letters = 0 /\ IsValidToken(n.stem)}

\* C14: the automatic selection is the last min(k, n) of the n valid
\* partition files in ascending order, k being 1, 6, 24 or 12 by
\* time_scope; no other file is ever selected.
C14_AutoSelectionWindow ==
    AutoSelected =>
        /\ Len(target_files) =
               IF Cardinality(ValidPartitions) <
                      (CASE analysis.time_scope = SINGLE_MONTH -> 1
                         [] analysis.time_scope = MULTI_MONTH -> 6
                         [] analysis.time_scope = YEAR_OVER_YEAR -> 24
                         [] OTHER -> 12)
               THEN Cardinality(ValidPartitions)
               ELSE (CASE analysis.time_scope = SINGLE_MONTH -> 1
                       [] analysis.time_scope = MULTI_MONTH -> 6
                       [] analysis.time_scope = YEAR_OVER_YEAR -> 24
                       [] OTHER -> 12)
        /\ \A i \in DOMAIN target_files : target_files[i] \in ValidPartitions
        /\ \A i, j \in DOMAIN target_files :
               i < j => target_files[i].stem < target_files[j].stem
        /\ \A n \in ValidPartitions, i \in DOMAIN target_files :
               n.stem >= target_files[i].stem
                   => \E j \in DOMAIN target_files : target_files[j] = n
C14_Witness ==
    /\ AutoSelected
    /\ analysis.time_scope = YEAR_OVER_YEAR
    /\ Len(target_files) = 24
    /\ Cardinality(ValidPartitions) > 24
    /\ OtherNames \subseteq kg_dir.entries

\* C15 (refuted): determine_target_files never raises, and answers a
\* missing kg_path with the empty list, which goes on to the next step.
C15_ResolutionNeverRaises ==
    pc # PC_FILES =>
        /\ pc = PC_GENERATE
        /\ kg_dir.kind = DIR_MISSING => target_files = <<>>

\* The month the query names, as a path under kg_path.
NamedPartition == PathOf(Token(query_words[2].v, query_words[1].v))

\* C16 (refuted): a query naming a month without a partition file gets a
\* response with no target file and a successful execution, whatever else
\* is under kg_path.  Stated for the responses whose execution did
\* succeed: they name no target file.
C16_MissingDateYieldsEmptyResponse ==
    (/\ pc = PC_RETURNED
     /\ ~Exists(NamedPartition, kg_dir)
     /\ Last(results).success) => target_files = <<>>

\* The query holds a month name followed by the number n.
NamesMonthOf(n) ==
    \E i \in DOMAIN query_words :
        /\ i > 1
        /\ query_words[i] = Word(W_NUMBER, n)
        /\ query_words[i - 1].k = W_MONTH

\* C17: a list returned by extract_dates is strictly ascending, so free of
\* duplicates, and holds only six-digit tokens of the years 2020 to 2030
\* and the months 1 to 12.
C17_ReturnedDatesAreCleanAndSorted ==
    extracted_dates.kind = DATES_LIST =>
        /\ \A i \in DOMAIN extracted_dates.dates :
               /\ extracted_dates.dates[i] \in 100000..999999
               /\ extracted_dates.dates[i] \div 100 \in 2020..2030
               /\ extracted_dates.dates[i] % 100 \in 1..12
        /\ \A i, j \in DOMAIN extracted_dates.dates :
               i < j => extracted_dates.dates[i] < extracted_dates.dates[j]

\* "June 2099" gave the token 209906, which was dropped, and the tokens
\* that stayed are in order.
C17_Witness ==
    /\ pc = PC_FILES
    /\ NamesMonthOf(2099)
    /\ extracted_dates.kind = DATES_LIST
    /\ Len(extracted_dates.dates) >= 2

\* The keyword analysis ran and extract_dates returned to it.
ExtractReturned ==
    /\ pc = PC_FILES
    /\ ~analysis.by_llm

\* C18 (refuted): extract_dates returns None or a list with at least one
\* token, never the empty list.
C18_NoneOrNonEmptyList ==
    (ExtractReturned /\ extracted_dates.kind = DATES_LIST)
        => extracted_dates.dates # <<>>

\* C19 (refuted): for a query holding a month name and a year, extract_dates
\* returns the one token of that month and year, whatever else the query
\* holds.
C19_MonthYearGivesItsOneToken ==
    ExtractReturned =>
        \A i \in DOMAIN query_words :
            (/\ i < Len(query_words)
             /\ query_words[i].k = W_MONTH
             /\ IsYearWord(query_words[i + 1]))
            => extracted_dates =
                   DateList(<<Token(FirstFour(query_words[i + 1].v),
                                    query_words[i].v)>>)

\* C20 (refuted): for a query holding "Q<n> <year>", or the quarter written
\* out and a year, extract_dates returns the three months of that quarter
\* of that year and nothing else.
C20_QuarterGivesItsThreeTokens ==
    ExtractReturned =>
        /\ \A i \in DOMAIN query_words :
               (/\ i < Len(query_words)
                /\ query_words[i].k = W_Q
                /\ IsYearWord(query_words[i + 1]))
               => extracted_dates =
                      DateList(QuarterTokens(FirstFour(query_words[i + 1].v),
                                             query_words[i].v))
        /\ \A i \in DOMAIN query_words :
               (/\ i + 2 <= Len(query_words)
                /\ query_words[i].k = W_ORDINAL
                /\ query_words[i + 1].k = W_QUARTER
                /\ IsYearWord(query_words[i + 2]))
               => extracted_dates =
                      DateList(QuarterTokens(FirstFour(query_words[i + 2].v),
                                             query_words[i].v))

\* C21 (refuted): a query holding the phrase of an event of hurricane_dates
\* gets that event's two tokens in the list extract_dates returns, whatever
\* else the query holds.
C21_EventGivesItsPair ==
    ExtractReturned =>
        \A s \in DOMAIN hurricane_dates :
            NamesStorm(query_words, s) =>
                /\ extracted_dates.kind = DATES_LIST
                /\ Range(hurricane_dates[s])
                       \subseteq Range(extracted_dates.dates)

\* The tokens of the first category, in the order month and year, quarter
\* and year, bare year, relative phrase, month range, that finds any.
FirstSuccessful(words, now) ==
    IF _extract_month_year_patterns(words) # <<>>
    THEN _extract_month_year_patterns(words)
    ELSE IF _extract_quarter_patterns(words) # <<>>
    THEN _extract_quarter_patterns(words)
    ELSE IF _extract_year_patterns(words, now) # <<>>
    THEN _extract_year_patterns(words, now)
    ELSE IF _extract_relative_dates_advanced(words, now) # <<>>
    THEN _extract_relative_dates_advanced(words, now)
    ELSE _extract_month_ranges(words, now)

\* C22 (refuted): the tokens extract_dates returns come from the first
\* category that found any, or from the named events; no category of lower
\* priority adds tokens.
C22_FirstSuccessfulCategoryWins ==
    (ExtractReturned /\ extracted_dates.kind = DATES_LIST) =>
        \E now \in Nows :
            Range(extracted_dates.dates)
                \subseteq (Range(FirstSuccessful(query_words, now))
                           \cup Range(_extract_hurricane_dates(query_words)))

\* generate_query_code returned, and the backend was asked (the prompt
\* was built) and replied with a text.
BackendReplied ==
    /\ pc = PC_FORMAT
    /\ analysis.has_type
    /\ llm_code.kind = LLM_TEXT

\* C23 (refuted): the template is used only when there is no backend or its
\* call raises; a reply holding a fenced block comes back as the content of
\* the block, and a reply without one comes back as the backend wrote it.
C23_BackendFirstFenceUnwrappedElseUnmodified ==
    /\ (pc = PC_FORMAT /\ llm_code.kind # LLM_TEXT)
           => generated = TemplateCode
    /\ (BackendReplied /\ HasFencedBlock(Split(llm_code.code)))
           => generated = FencedBlock(Split(llm_code.code),
                                      FenceStart(Split(llm_code.code)))
    /\ (BackendReplied /\ ~HasFencedBlock(Split(llm_code.code)))
           => generated = llm_code.code

\* generate_insights has been called on the envelope of a success.
InsightsDone ==
    /\ formatted_data.kind = DATA_OK
    /\ pc \in {PC_RETURNED, PC_RAISED}

\* Nothing to derive an insight from: no data points, no summary, no
\* pattern.
NothingToDerive ==
    /\ ~HasDataPoints(formatted_data)
    /\ formatted_data.summary \in {KEY_ABSENT, EMPTY_DICT}
    /\ ~formatted_data.query_pattern

\* C24 (refuted): generate_insights does not raise, whatever the data, its
\* items and the summary of a successful execution are, and it returns a
\* list that is not empty: the one generic insight when nothing is derived.
C24_InsightsNeverRaiseNeverEmpty ==
    InsightsDone =>
        /\ ~insights.raised
        /\ insights.list # <<>>
        /\ NothingToDerive => insights.list = <<I_GENERIC>>

\* C25: for an execution result with success = false, format_results
\* returns an object whose only key is error, and generate_insights returns
\* the one insight that reports the failure.
C25_FailureGivesErrorEnvelope ==
    (results # <<>> /\ ~Last(results).success) =>
        /\ pc \in {PC_INSIGHTS, PC_RETURNED, PC_RAISED}
               => formatted_data.keys = KEYS_ERROR
        /\ pc \in {PC_RETURNED, PC_RAISED}
               => insights = Insights(FALSE, <<I_FAILED>>)

\* A child ended with a return code other than 0, and the pipeline
\* returned the envelope and its insight.
C25_Witness ==
    /\ pc = PC_RETURNED
    /\ results # <<>>
    /\ Last(results).error = ERR_RETURN_CODE
    /\ formatted_data.keys = KEYS_ERROR
    /\ insights.list = <<I_FAILED>>

\* execute has returned the result of a call whose wait_for timed out: the
\* only results of a spawned child that carry no stdout and stderr.
TimedOutCall ==
    /\ xpc = X_RETURNED
    /\ results # <<>>
    /\ spawned > 0
    /\ ~Last(results).has_std

\* What backend st returns for the outcome the returned call has met.
ResultUnder(st) ==
    IF spawned = 0 THEN ResultOfSpawnFailure(st)
    ELSE IF ~Last(results).has_std THEN ResultOfTimeout(st)
    ELSE ResultOfExit(exit)

\* C26 (refuted): for the same outcome of the child (exit 0 with a JSON
\* line, exit 0 without one, another return code, a timeout) execute
\* returns a result of the same class and with the same success flag under
\* the container backend and under the isolated-process backend, and a
\* timeout is a timed-out result under both.
C26_BackendsReturnTheSameClass ==
    (xpc = X_RETURNED /\ results # <<>>) =>
        /\ \A st \in Strategies :
               /\ ResultClass(ResultUnder(st)) = ResultClass(Last(results))
               /\ ResultUnder(st).success = Last(results).success
        /\ TimedOutCall => ResultClass(Last(results)) = TIMED_OUT

\* A later line of lines is an except or finally clause at the indentation
\* of line i.
HasClauseAfter(lines, i) ==
    \E j \in (i + 1)..Len(lines) :
        /\ lines[j].ind = lines[i].ind
        /\ StartsWithExceptOrFinally(lines[j].txt)

\* C27 (refuted): in the lines _fix_incomplete_try_blocks returns, every
\* try line of the input is followed by an except or finally clause at its
\* own indentation, also when try blocks are nested or a try has several
\* clauses.  (The weakest reading: any later clause at that indentation
\* counts as the matching one.)
C27_EveryTryHasItsClause ==
    pc = PC_IDLE =>
        \A i \in DOMAIN fmt.code :
            StartsWithTry(fmt.code[i].txt) => HasClauseAfter(fmt.code, i)

\* C29 (refuted): in the triple format_and_validate returns, the error
\* list is empty when the flag is true and not empty when the flag is
\* false.
C29_ErrorsEmptyIffValid ==
    (pc \in {PC_IDLE, PC_RETURNED} /\ ~fmt.exc) =>
        (fmt.is_valid <=> fmt.errors = <<>>)

\* The code the last call of format_and_validate was given.
FormatInput == IF pc = PC_IDLE THEN generated ELSE formatted_code.lines

\* The errors of Step 3's first validation of that code.
FirstErrors ==
    _validate_syntax(_fix_common_llm_issues(_preprocess_code(FormatInput))).errors

\* C29 (amended): in the triple format_and_validate returns, the error list
\* is not empty when the flag is false; when the flag is true the list
\* holds the errors of the first validation, those the repair removed, and
\* is empty only if the code parsed before any repair.
C29_ErrorsKeepTheFirstValidation ==
    (pc \in {PC_IDLE, PC_RETURNED} /\ ~fmt.exc) =>
        /\ ~fmt.is_valid => fmt.errors # <<>>
        /\ fmt.is_valid => fmt.errors = FirstErrors

\* A call returned code flagged valid together with the error the repair
\* removed.
C29_Witness ==
    /\ pc = PC_IDLE
    /\ fmt.is_valid
    /\ fmt.errors # <<>>
    /\ ~Parses(_fix_common_llm_issues(_preprocess_code(generated)))

\* What execute can return to a call on query q under backend st, whatever
\* the other calls do.
OwnResults(q, st) ==
    {ResultOfExit(ExitOfScript(SecureScript(q))), ResultOfTimeout(st),
     ResultOfSpawnFailure(st)}

\* C28: with any interleaving of the calls on the shared agent, a child
\* runs the script its own call wrote; as long as a call has not returned,
\* its script is in its temporary file as the call wrote it, whatever the
\* other calls create and remove; and what execute returns to a call is a
\* result of its own query.
C28_CallsDoNotInterfere ==
    \A i \in DOMAIN calls :
        /\ calls[i].ran # NoScript
               => calls[i].ran = SecureScript(calls[i].query)
        /\ calls[i].pc \in {C_CREATED, C_WAITING}
               => TempFile(calls[i].script_path,
                           SecureScript(calls[i].query)) \in tmp
        /\ calls[i].pc = C_RETURNED
               => calls[i].result \in OwnResults(calls[i].query, strategy)

\* Two calls on different queries overlapped: one has returned its own
\* result and removed its script while the other's child runs the other's
\* script, still in place.
C28_Witness ==
    \E i, j \in DOMAIN calls :
        /\ calls[i].query # calls[j].query
        /\ calls[i].pc = C_RETURNED
        /\ calls[i].result = ResultOfExit(ExitOfScript(SecureScript(calls[i].query)))
        /\ calls[j].pc = C_WAITING
        /\ calls[j].child = K_RUNNING
        /\ calls[j].ran = SecureScript(calls[j].query)
        /\ TempFile(calls[j].script_path, calls[j].ran) \in tmp

=============================================================================
